---- MODULE Spec2Model ----
(***************************************************************************)
(* greenlight: JSON REST API for a movie catalog.                          *)
(*                                                                         *)
(* Spec      the movie handlers of cmd/api/movies.go running concurrently   *)
(*           against the movies table through internal/data/movies.go.      *)
(* AuthSpec  one request travelling through authenticate and the            *)
(*           permission gate wired by cmd/api/routes.go.                    *)
(* TokenSpec the token lifecycle of internal/data/tokens.go: issue, look    *)
(*           up, expire, delete on activation.                              *)
(* UserSpec  the password and the validation of internal/data/users.go.     *)
(* GateSpec  AuthSpec with the movie handlers writing the movies table.     *)
(* LimitSpec the connections of the server passing through rateLimit;       *)
(*           LimitFairSpec adds the scheduling of the mutex.                *)
(* PanicSpec one connection through recoverPanic, rateLimit and a handler   *)
(*           that may fail or panic.                                        *)
(* JobSpec   a store operation under its 3-second context and a            *)
(*           Mailer.Send with its retries.                                  *)
(***************************************************************************)
EXTENDS Integers, Sequences, FiniteSets, TLC

VARIABLES
    movies,     \* the movies table: id -> row
    nextID,     \* the bigserial sequence of movies.id
    updates,    \* history: id -> number of Update calls that returned nil
    reqs,       \* the movie requests in flight: slot -> handler frame
    now,        \* the wall clock read by the token lookup
    users,      \* the users table: id -> row
    grants,     \* the users_permissions table: a set of <<user_id, permission_id>>
    tokens,     \* the tokens table: a set of rows
    areq,       \* the request travelling through the middleware chain
    seen,       \* history: the responses sent after a failed token lookup
    tk,         \* the last token operation and the history of the token lifecycle
    cred,       \* a data.User in a handler and the last call on it
    srv,        \* the process: the connections served, the mutex and the limiter map of rateLimit
    job         \* a store operation and a Mailer.Send in progress

vars ==
    <<movies, nextID, updates, reqs, now, users, grants, tokens, areq, seen, tk, cred,
      srv, job>>
movieVars == <<movies, nextID, updates, reqs>>
authVars == <<now, users, grants, tokens, areq, seen>>
lifeVars == <<tk>>
credVars == <<cred>>
chainVars == <<srv>>
jobVars == <<job>>

----------------------------------------------------------------------------
(* Bounds of the model. *)

NumReqs == 3        \* request slots of Spec
MaxMovies == 2      \* ids the bigserial sequence hands out
CurrentYear == 2026 \* time.Now().Year()
MaxTime == 3        \* ticks of the clock
TokenTTL == 2       \* the expiry of the stored tokens, in ticks
ActivationTTL == 3  \* the ttl of an activation token, in ticks
MaxUsers == 4       \* rows of the users table
NumConns == 2       \* connections served at a time
MaxPatches == 1     \* PATCH requests that reach Update in GateSpec

(* Program constants. *)

MinYear == 1888
MaxTitleLen == 500
MaxGenres == 5
InitialVersion == 1
TokenLen == 26
RandomLen == 16
BcryptCost == 12
BcryptKeyBytes == 72
MinPasswordLen == 8
MaxPasswordLen == 72
MaxNameLen == 500
Burst == 4
StoreTimeout == 3
MaxTries == 3

Slots == 1..NumReqs
MovieIDs == 1..MaxMovies

----------------------------------------------------------------------------
(* strconv.FormatInt(n, 10) for n >= 0, as a sequence of characters. *)

Digits == <<"0", "1", "2", "3", "4", "5", "6", "7", "8", "9">>

RECURSIVE FormatInt(_)
FormatInt(n) ==
    IF n < 10 THEN <<Digits[n + 1]>>
    ELSE FormatInt(n \div 10) \o <<Digits[(n % 10) + 1]>>

(* The values of the X-Expected-Version header a client sends; <<>> is the
   absent header (r.Header.Get returns ""). *)
ExpectedVersionHeaders == {<<>>, <<"1">>, <<"0", "1">>}

----------------------------------------------------------------------------
(* data.Movie and the JSON bodies of PATCH and POST. *)

ZeroMovie ==
    [ID |-> 0, Title |-> "", Year |-> 0, Runtime |-> 0, Genres |-> <<>>,
     GenresNil |-> TRUE, Version |-> 0]

SeedRow ==
    [Title |-> "Casablanca", Year |-> 1942, Runtime |-> 102,
     Genres |-> <<"drama">>, Version |-> InitialVersion]

Absent == [has |-> FALSE]

(* A decoded PATCH body: every key is a pointer (nil when the key is absent);
   genres is a slice, nil when absent and empty for []. *)
Body(t, y, r, g) == [Title |-> t, Year |-> y, Runtime |-> r, Genres |-> g]
Str(s) == [has |-> TRUE, v |-> s]

PatchBodies ==
    { Body(Absent, Absent, Absent, Absent),
      Body(Str("Vertigo"), Absent, Absent, Absent),
      Body(Absent, Str(1958), Str(128), Str(<<"thriller", "noir">>)),
      Body(Str(""), Absent, Absent, Str(<<>>)) }

(* The decoded POST bodies: one that passes ValidateMovie, one that does not. *)
PostBodies ==
    { Body(Str("Alien"), Str(1979), Str(117), Str(<<"horror">>)),
      Body(Str("Alien"), Str(1800), Str(117), Str(<<"horror", "horror">>)) }

(* readJSON: the decoded body, or an error for a body that is not the JSON
   the handler expects. *)
BadJSON == [bad |-> TRUE]
readJSON(raw) ==
    IF raw = BadJSON THEN [err |-> "badRequest", input |-> Body(Absent, Absent, Absent, Absent)]
    ELSE [err |-> "nil", input |-> raw]

Unique(s) == \A i, j \in 1..Len(s) : s[i] = s[j] => i = j

(* ValidateMovie: TRUE iff the validator holds no error afterwards. *)
ValidateMovie(m) ==
    /\ m.Title # ""
    /\ Len(m.Title) <= MaxTitleLen
    /\ m.Year # 0
    /\ m.Year >= MinYear
    /\ m.Year <= CurrentYear
    /\ m.Runtime # 0
    /\ m.Runtime > 0
    /\ ~m.GenresNil
    /\ Len(m.Genres) >= 1
    /\ Len(m.Genres) <= MaxGenres
    /\ Unique(m.Genres)

----------------------------------------------------------------------------
(* net/http: header keys are sequences of characters; Header.Set stores a
   value under the canonical form of the key. *)

UpperChars ==
    <<"A", "B", "C", "D", "E", "F", "G", "H", "I", "J", "K", "L", "M", "N", "O",
      "P", "Q", "R", "S", "T", "U", "V", "W", "X", "Y", "Z">>
LowerChars ==
    <<"a", "b", "c", "d", "e", "f", "g", "h", "i", "j", "k", "l", "m", "n", "o",
      "p", "q", "r", "s", "t", "u", "v", "w", "x", "y", "z">>

IndexIn(c, seq) ==
    IF \E i \in 1..Len(seq) : seq[i] = c
    THEN CHOOSE i \in 1..Len(seq) : seq[i] = c
    ELSE 0

ToUpper(c) == IF IndexIn(c, LowerChars) > 0 THEN UpperChars[IndexIn(c, LowerChars)] ELSE c
ToLower(c) == IF IndexIn(c, UpperChars) > 0 THEN LowerChars[IndexIn(c, UpperChars)] ELSE c

(* The bytes of a header key that textproto accepts (of those used here). *)
ValidHeaderFieldChar(c) ==
    IndexIn(c, UpperChars) > 0 \/ IndexIn(c, LowerChars) > 0 \/ c = "-"

(* textproto.CanonicalMIMEHeaderKey: the first letter and every letter after
   a hyphen in upper case, the others in lower case; a key holding a byte
   that is not valid in a header field is returned as it is. *)
CanonicalMIMEHeaderKey(k) ==
    IF \E i \in 1..Len(k) : ~ValidHeaderFieldChar(k[i]) THEN k
    ELSE [i \in 1..Len(k) |->
            IF i = 1 THEN ToUpper(k[i])
            ELSE IF k[i - 1] = "-" THEN ToUpper(k[i])
            ELSE ToLower(k[i])]

(* Header.Set and Header.Get. *)
HeaderSet(h, key, value) ==
    {kv \in h : kv[1] # CanonicalMIMEHeaderKey(key)}
        \cup {<<CanonicalMIMEHeaderKey(key), value>>}
HeaderGet(h, key) ==
    IF \E kv \in h : kv[1] = CanonicalMIMEHeaderKey(key)
    THEN (CHOOSE kv \in h : kv[1] = CanonicalMIMEHeaderKey(key))[2]
    ELSE ""

KeyContentType == <<"C", "o", "n", "t", "e", "n", "t", "-", "T", "y", "p", "e">>
KeyLocation == <<"L", "o", "c", "a", "t", "i", "o", "n">>

----------------------------------------------------------------------------
(* cmd/api/helpers.go and cmd/api/errors.go: the client-facing responses. *)

(* writeJSON: the given headers, Content-Type, the status and the body. *)
writeJSON(status, body, headers) ==
    [status |-> status,
     headers |-> HeaderSet(headers, KeyContentType, "application/json"),
     message |-> body]

(* errorResponse: the message in an envelope, no further header. *)
errorResponse(headers, status, message) == writeJSON(status, message, headers)

NoResponse == [status |-> 0, headers |-> {}, message |-> ""]
notFoundResponse ==
    errorResponse({}, 404, "the requested resource could not be found")
badRequestResponse == errorResponse({}, 400, "body could not be decoded")
failedValidationResponse == errorResponse({}, 422, "validation errors")
editConflictResponse ==
    errorResponse({}, 409,
        "unable to update the record due to an edit conflict, please try again")
OKResponse == writeJSON(200, "movie", {})
CreatedResponse(id) ==
    writeJSON(201, "movie",
        HeaderSet({}, KeyLocation,
            <<"/", "v", "1", "/", "m", "o", "v", "i", "e", "s", "/">> \o FormatInt(id)))
DeletedResponse == writeJSON(200, "movie successfully delete", {})

----------------------------------------------------------------------------
(* internal/data/movies.go: MovieModel. *)

RowToMovie(id, row) ==
    [ID |-> id, Title |-> row.Title, Year |-> row.Year, Runtime |-> row.Runtime,
     Genres |-> row.Genres, GenresNil |-> FALSE, Version |-> row.Version]

(* Get: the row with this id, or ErrRecordNotFound. *)
MovieGet(id) ==
    IF id < 1 \/ id \notin DOMAIN movies
    THEN [err |-> "ErrRecordNotFound", movie |-> ZeroMovie]
    ELSE [err |-> "nil", movie |-> RowToMovie(id, movies[id])]

(* A WHERE clause that forgets the version. *)
UpdateMatchesIdOnly(table, m) == m.ID \in DOMAIN table

(* A WHERE clause that accepts any stored version from the read one on. *)
UpdateMatchesAtLeast(table, m) ==
    /\ m.ID \in DOMAIN table
    /\ table[m.ID].Version >= m.Version

(* The WHERE clause of Update's statement. *)
UpdateMatches(table, m) ==
    /\ m.ID \in DOMAIN table
    /\ table[m.ID].Version = m.Version

(* An Update that leaves the version column alone. *)
MovieUpdateNoBump(table, m) ==
    IF UpdateMatches(table, m)
    THEN [err |-> "nil",
          version |-> table[m.ID].Version,
          table |-> [table EXCEPT ![m.ID] =
                        [Title |-> m.Title, Year |-> m.Year, Runtime |-> m.Runtime,
                         Genres |-> m.Genres, Version |-> @.Version]]]
    ELSE [err |-> "ErrEditConflict", version |-> m.Version, table |-> table]

(* An Update that writes the row back when the statement matched none. *)
MovieUpdateUpsert(table, m) ==
    IF UpdateMatches(table, m)
    THEN [err |-> "nil",
          version |-> table[m.ID].Version + 1,
          table |-> [table EXCEPT ![m.ID] =
                        [Title |-> m.Title, Year |-> m.Year, Runtime |-> m.Runtime,
                         Genres |-> m.Genres, Version |-> @.Version + 1]]]
    ELSE [err |-> "ErrEditConflict", version |-> m.Version,
          table |-> [i \in DOMAIN table \cup {m.ID} |->
                        IF i = m.ID
                        THEN [Title |-> m.Title, Year |-> m.Year, Runtime |-> m.Runtime,
                              Genres |-> m.Genres, Version |-> m.Version + 1]
                        ELSE table[i]]]

(* Update: UPDATE ... SET ..., version = version + 1 WHERE id = $5 AND version = $6
   RETURNING version.  No returned row is ErrEditConflict. *)
MovieUpdate(table, m) ==
    IF UpdateMatches(table, m)
    THEN [err |-> "nil",
          version |-> table[m.ID].Version + 1,
          table |-> [table EXCEPT ![m.ID] =
                        [Title |-> m.Title, Year |-> m.Year, Runtime |-> m.Runtime,
                         Genres |-> m.Genres, Version |-> @.Version + 1]]]
    ELSE [err |-> "ErrEditConflict", version |-> m.Version, table |-> table]

(* A Delete that does not look at the number of rows affected. *)
MovieDeleteAnyRowCount(table, id) ==
    IF id < 1 THEN [err |-> "ErrRecordNotFound", table |-> table]
    ELSE [err |-> "nil", table |-> [i \in DOMAIN table \ {id} |-> table[i]]]

(* Delete: DELETE FROM movies WHERE id = $1; no affected row is
   ErrRecordNotFound. *)
MovieDelete(table, id) ==
    IF id < 1 \/ id \notin DOMAIN table
    THEN [err |-> "ErrRecordNotFound", table |-> table]
    ELSE [err |-> "nil", table |-> [i \in DOMAIN table \ {id} |-> table[i]]]

(* Insert: the new row gets the next id of the sequence and the column
   default version. *)
MovieInsert(table, id, m) ==
    [i \in DOMAIN table \cup {id} |->
        IF i = id
        THEN [Title |-> m.Title, Year |-> m.Year, Runtime |-> m.Runtime,
              Genres |-> m.Genres, Version |-> InitialVersion]
        ELSE table[i]]

----------------------------------------------------------------------------
(* cmd/api/movies.go: the handlers.  A frame holds the handler's locals. *)

IdleFrame ==
    [pc |-> "idle", kind |-> "none", id |-> 0, hdr |-> <<>>, movie |-> ZeroMovie,
     body |-> Body(Absent, Absent, Absent, Absent),
     read |-> 0, called |-> FALSE, gone |-> FALSE, err |-> "nil",
     resp |-> NoResponse]

(* Slots are taken in order: the requests are interchangeable. *)
CanStart(s) ==
    /\ reqs[s].pc = "idle"
    /\ IF s = 1 THEN TRUE ELSE reqs[s - 1].pc # "idle"

(* A pre-check that never rejects. *)
PreCheckSkipped(hdr, m) == FALSE

(* The X-Expected-Version pre-check of updateMovieHandler. *)
PreCheckFails(hdr, m) == hdr # <<>> /\ FormatInt(m.Version) # hdr

(* A merge that gives a movie a title when the body has none. *)
MergeDefaultsTitle(m, b) ==
    [m EXCEPT
        !.Title = IF b.Title.has THEN b.Title.v ELSE "Untitled",
        !.Year = IF b.Year.has THEN b.Year.v ELSE @,
        !.Runtime = IF b.Runtime.has THEN b.Runtime.v ELSE @,
        !.Genres = IF b.Genres.has THEN b.Genres.v ELSE @,
        !.GenresNil = IF b.Genres.has THEN FALSE ELSE @]

(* The partial-update merge of updateMovieHandler. *)
Merge(m, b) ==
    [m EXCEPT
        !.Title = IF b.Title.has THEN b.Title.v ELSE @,
        !.Year = IF b.Year.has THEN b.Year.v ELSE @,
        !.Runtime = IF b.Runtime.has THEN b.Runtime.v ELSE @,
        !.Genres = IF b.Genres.has THEN b.Genres.v ELSE @,
        !.GenresNil = IF b.Genres.has THEN FALSE ELSE @]

(* updateMovieHandler up to the call of Movies.Update: Get, the pre-check,
   readJSON, the merge and the validation. *)
UpdateRead(s) ==
    /\ CanStart(s)
    /\ \E id \in MovieIDs, hdr \in ExpectedVersionHeaders,
          raw \in PatchBodies \cup {BadJSON} :
        LET got == MovieGet(id)
            in == readJSON(raw)
            merged == Merge(got.movie, in.input)
            found == [IdleFrame EXCEPT !.kind = "update", !.id = id]
            base == [found EXCEPT !.hdr = hdr, !.read = got.movie.Version]
            done(r) == [base EXCEPT !.pc = "done", !.resp = r]
        IN  reqs' = [reqs EXCEPT ![s] =
                IF got.err # "nil"
                THEN [found EXCEPT !.pc = "done", !.resp = notFoundResponse]
                ELSE IF PreCheckFails(hdr, got.movie) THEN done(editConflictResponse)
                ELSE IF in.err # "nil" THEN done(badRequestResponse)
                ELSE IF ~ValidateMovie(merged) THEN done(failedValidationResponse)
                ELSE [base EXCEPT !.pc = "update", !.movie = merged,
                                  !.body = in.input]]
    /\ UNCHANGED <<movies, nextID, updates>>

(* updateMovieHandler from the call of Movies.Update to the response. *)
UpdateWrite(s) ==
    /\ reqs[s].pc = "update"
    /\ LET res == MovieUpdate(movies, reqs[s].movie)
       IN  /\ movies' = res.table
           /\ updates' = IF res.err = "nil"
                         THEN [updates EXCEPT ![reqs[s].id] = @ + 1]
                         ELSE updates
           /\ reqs' = [reqs EXCEPT ![s] =
                [@ EXCEPT !.pc = "done", !.called = TRUE,
                          !.gone = reqs[s].id \notin DOMAIN movies,
                          !.err = res.err,
                          !.movie = [@ EXCEPT !.Version = res.version],
                          !.resp = IF res.err = "ErrEditConflict"
                                   THEN editConflictResponse
                                   ELSE OKResponse]]
    /\ UNCHANGED nextID

(* deleteMovieHandler. *)
DeleteMovie(s) ==
    /\ CanStart(s)
    /\ \E id \in MovieIDs :
        LET res == MovieDelete(movies, id)
        IN  /\ movies' = res.table
            /\ reqs' = [reqs EXCEPT ![s] =
                 [IdleFrame EXCEPT !.pc = "done", !.kind = "delete", !.id = id,
                                   !.err = res.err,
                                   !.resp = IF res.err = "ErrRecordNotFound"
                                            THEN notFoundResponse
                                            ELSE DeletedResponse]]
    /\ UNCHANGED <<nextID, updates>>

(* createMovieHandler. *)
CreateMovie(s) ==
    /\ CanStart(s)
    /\ nextID <= MaxMovies
    /\ \E raw \in PostBodies \cup {BadJSON} :
        LET in == readJSON(raw)
            m == Merge(ZeroMovie, in.input)
        IN  IF in.err # "nil"
            THEN /\ reqs' = [reqs EXCEPT ![s] =
                      [IdleFrame EXCEPT !.pc = "done", !.kind = "create",
                                        !.resp = badRequestResponse]]
                 /\ UNCHANGED <<movies, nextID>>
            ELSE IF ValidateMovie(m)
            THEN /\ movies' = MovieInsert(movies, nextID, m)
                 /\ nextID' = nextID + 1
                 /\ reqs' = [reqs EXCEPT ![s] =
                      [IdleFrame EXCEPT !.pc = "done", !.kind = "create",
                                        !.id = nextID,
                                        !.movie = [m EXCEPT !.ID = nextID,
                                                            !.Version = InitialVersion],
                                        !.resp = CreatedResponse(nextID)]]
            ELSE /\ reqs' = [reqs EXCEPT ![s] =
                      [IdleFrame EXCEPT !.pc = "done", !.kind = "create",
                                        !.resp = failedValidationResponse]]
                 /\ UNCHANGED <<movies, nextID>>
    /\ UNCHANGED updates

----------------------------------------------------------------------------
(* internal/data/tokens.go and the tokens, users and permissions tables. *)

RECURSIVE Rep(_, _)
Rep(c, n) == IF n = 0 THEN <<>> ELSE <<c>> \o Rep(c, n - 1)

(* The plaintext of a generated token: TokenLen base-32 characters. *)
Plaintext(c) == Rep(c, TokenLen)

(* sha256.Sum256 of a plaintext: a value of another type that two different
   plaintexts never share. *)
Sha256(p) == [sha256 |-> p]

(* An activation scope that is the same string as the authentication scope. *)
ScopeActivationAsAuthentication == "authentication"

ScopeActivation == "activation"
ScopeAuthentication == "authentication"

TokenRow(c, uid, expiry, scope) ==
    [Hash |-> Sha256(Plaintext(c)), UserID |-> uid, Expiry |-> expiry, Scope |-> scope]

(* A token validation that only asks for at least TokenLen characters. *)
ValidateTokenPlaintextAtLeast(tokenPlaintext) ==
    /\ tokenPlaintext # <<>>
    /\ Len(tokenPlaintext) >= TokenLen

(* ValidateTokenPlaintext: TRUE iff the validator holds no error afterwards. *)
ValidateTokenPlaintext(tokenPlaintext) ==
    /\ tokenPlaintext # <<>>
    /\ Len(tokenPlaintext) = TokenLen

(* The lookup of a presented token: the user owning a row with this hash and
   scope whose expiry is later than now. *)
GetForToken(scope, tokenPlaintext) ==
    LET rows == {t \in tokens : /\ t.Hash = Sha256(tokenPlaintext)
                                /\ t.Scope = scope
                                /\ t.Expiry > now}
    IN  IF rows = {} THEN [err |-> "ErrRecordNotFound", user |-> [ID |-> 0, Activated |-> FALSE]]
        ELSE [err |-> "nil", user |-> users[(CHOOSE t \in rows : TRUE).UserID]]

(* The permissions table as the migration fills it: id -> code. *)
PermissionCodes == <<"movies:read", "movies:write">>

(* A Permissions.Include that looks at the first code only. *)
PermissionsIncludeFirstOnly(p, code) == Len(p) > 0 /\ p[1] = code

(* Permissions.Include. *)
PermissionsInclude(p, code) == \E i \in 1..Len(p) : p[i] = code

(* PermissionModel.GetAllForUser: the codes joined to the user, in id order. *)
GetAllForUser(userID) ==
    LET ids == SelectSeq(<<1, 2>>, LAMBDA pid : <<userID, pid>> \in grants)
    IN  [i \in 1..Len(ids) |-> PermissionCodes[ids[i]]]

----------------------------------------------------------------------------
(* cmd/api/errors.go: the responses of the middleware chain. *)

KeyConnection == <<"C", "o", "n", "n", "e", "c", "t", "i", "o", "n">>
KeyConnectionAsWritten == <<"C", "o", "n", "n", "e", "c", "t", "i", "o", "n", ":">>
KeyWWWAuthenticate ==
    <<"W", "W", "W", "-", "A", "u", "t", "h", "e", "n", "t", "i", "c", "a", "t", "e">>
KeyChallengeAsWritten ==
    <<"W", "W", "W", "W", "-", "A", "u", "t", "h", "e", "n", "t", "i", "c", "a", "t", "e">>

(* logError: the entry PrintError writes, the error's text with the request's
   method and URL. *)
logError(r, err) ==
    [level |-> "ERROR", message |-> err,
     properties |-> [request_method |-> r.method, request_url |-> r.url]]


(* No entry written. *)
NoLogEntry ==
    [level |-> "", message |-> "",
     properties |-> [request_method |-> "", request_url |-> ""]]

(* A serverErrorResponse that sends the client the text of the error. *)
serverErrorResponseWithDetail(headers, err) == errorResponse(headers, 500, err)

(* serverErrorResponse: err goes to logError; the client is sent a message
   that does not depend on it. *)
serverErrorResponse(headers, err) ==
    errorResponse(headers, 500,
        "the server encountered a problem and could not process your request")

rateLimitExceededResponse == errorResponse({}, 429, "rate limited exceeded")

(* An invalidAuthenticationTokenResponse that tells the client when the
   presented token has a row in the tokens table. *)
invalidAuthenticationTokenTellsExpired ==
    errorResponse(HeaderSet({}, KeyChallengeAsWritten, "Bearer"), 401,
        IF \E t \in tokens :
                areq.hdr = <<"B", "e", "a", "r", "e", "r", " ">> \o t.Hash.sha256
        THEN "expired authentication token"
        ELSE "invalid or missing authentication token")

invalidAuthenticationTokenResponse ==
    errorResponse(HeaderSet({}, KeyChallengeAsWritten, "Bearer"), 401,
        "invalid or missing authentication token")

authenticationRequiredResponse ==
    errorResponse({}, 401, "you must be authenticated to access this resource")

(* An inactive account answered as a missing authentication. *)
inactiveAccountAs401 ==
    errorResponse({}, 401, "your user account must be activated to access this resource")

inactiveAccountResponse ==
    errorResponse({}, 403, "your user account must be activated to access this resource")

notPermittedResponse ==
    errorResponse({}, 403,
        "your user account doesn't have the necessary permissions to access this resource")

PanicMissingUser == "missing user value in request context"
PanicMissingHash == "missing password hash for user"

(* recoverPanic: the deferred function after a panic with the value err
   below it. *)
recoverPanic(err) ==
    serverErrorResponse(HeaderSet({}, KeyConnectionAsWritten, "close"), err)

----------------------------------------------------------------------------
(* cmd/api/routes.go, cmd/api/context.go and the middleware chain
   recoverPanic(rateLimit(authenticate(router))). *)

Routes ==
    {"healthcheck", "listMovies", "createMovie", "showMovie", "updateMovie",
     "deleteMovie", "registerUser", "activateUser", "createAuthenticationToken"}

(* A routes() that asks only movies:read of DELETE /v1/movies/:id. *)
RequiredPermissionReadToDelete(route) ==
    CASE route = "listMovies" -> "movies:read"
      [] route = "createMovie" -> "movies:write"
      [] route = "showMovie" -> "movies:read"
      [] route = "updateMovie" -> "movies:write"
      [] route = "deleteMovie" -> "movies:read"
      [] OTHER -> ""

(* The code requirePermissions is given for a route; "" for a route that is
   not wrapped. *)
RequiredPermission(route) ==
    CASE route = "listMovies" -> "movies:read"
      [] route = "createMovie" -> "movies:write"
      [] route = "showMovie" -> "movies:read"
      [] route = "updateMovie" -> "movies:write"
      [] route = "deleteMovie" -> "movies:write"
      [] OTHER -> ""

Bearer == <<"B", "e", "a", "r", "e", "r">>
BearerHeader(tok) == Bearer \o <<" ">> \o tok

(* The tokens a client presents after "Bearer ": the four stored ones, one
   never issued, one a character short, one a character long, none. *)
PresentedTokens ==
    { Plaintext("A"), Plaintext("B"), Plaintext("C"), Plaintext("D"),
      Plaintext("Z"), Rep("A", TokenLen - 1), Rep("A", TokenLen + 1), <<>> }

(* Authorization headers that are not "Bearer <token>". *)
MalformedHeaders ==
    { <<"T", "o", "k", "e", "n", " ", "x", "y", "z">>,
      Bearer,
      BearerHeader(Plaintext("A")) \o <<" ", "x">>,
      <<"b", "e", "a", "r", "e", "r", " ">> \o Plaintext("A") }

(* <<>> is the absent header (r.Header.Get returns ""). *)
AuthorizationHeaders ==
    {<<>>} \cup MalformedHeaders \cup {BearerHeader(t) : t \in PresentedTokens}

(* strings.Split(s, sep) for a one-character separator. *)
RECURSIVE Split(_, _)
Split(s, sep) ==
    IF \E i \in 1..Len(s) : s[i] = sep
    THEN LET i == CHOOSE i \in 1..Len(s) :
                    s[i] = sep /\ \A j \in 1..(i - 1) : s[j] # sep
         IN  <<SubSeq(s, 1, i - 1)>> \o Split(SubSeq(s, i + 1, Len(s)), sep)
    ELSE <<s>>

(* AnonymousUser: one variable of the package; IsAnonymous compares a user's
   address with its address. *)
AnonymousUser == [addr |-> "AnonymousUser", ID |-> 0, Activated |-> FALSE]
LoadedUser(row) == [addr |-> "heap", ID |-> row.ID, Activated |-> row.Activated]
IsAnonymous(u) == u.addr = AnonymousUser.addr

IdleRequest ==
    [pc |-> "idle", hdr |-> <<>>, route |-> "healthcheck", state |-> "Anonymous",
     hasUser |-> FALSE, user |-> [addr |-> "nil", ID |-> 0, Activated |-> FALSE],
     lookups |-> 0, lookupAt |-> 0, permsLoaded |-> FALSE, handled |-> FALSE,
     resp |-> NoResponse]

(* A contextSetUser that returns the request it was given. *)
contextSetUserDropped(r, user) == r

(* contextSetUser: the request with the user in its context. *)
contextSetUser(r, user) == [r EXCEPT !.hasUser = TRUE, !.user = user]

(* A contextGetUser that answers the anonymous user when the context holds
   none. *)
contextGetUserOrAnonymous(r) ==
    [ok |-> TRUE, user |-> IF r.hasUser THEN r.user ELSE AnonymousUser]

(* contextGetUser: the user of the context; ok is FALSE where it panics. *)
contextGetUser(r) == [ok |-> r.hasUser, user |-> r.user]

(* A request arrives at the chain. *)
Arrive ==
    /\ areq.pc \in {"idle", "done"}
    /\ \E hdr \in AuthorizationHeaders, route \in Routes :
        areq' = [IdleRequest EXCEPT !.pc = "authenticate", !.hdr = hdr, !.route = route]
    /\ UNCHANGED <<now, users, tokens, grants, seen>>

Rejected(r) ==
    [r EXCEPT !.pc = "done", !.state = "Rejected",
              !.resp = invalidAuthenticationTokenResponse]

(* authenticate.  seen keeps the response of the last lookup that failed on
   a token whose row had expired, and of the last that failed on a token
   with no row. *)
Authenticate ==
    /\ areq.pc = "authenticate"
    /\ LET parts == Split(areq.hdr, " ")
           got == GetForToken(ScopeAuthentication, parts[2])
           looked == [areq EXCEPT !.state = "TokenPresented", !.lookups = @ + 1,
                                  !.lookupAt = now]
           lookedUp == /\ areq.hdr # <<>>
                       /\ Len(parts) = 2
                       /\ parts[1] = Bearer
                       /\ ValidateTokenPlaintext(parts[2])
           expired == \E t \in tokens : /\ t.Hash = Sha256(parts[2])
                                        /\ t.Scope = ScopeAuthentication
                                        /\ t.Expiry <= now
           never == \A t \in tokens : t.Hash # Sha256(parts[2])
       IN  /\ areq' =
                IF areq.hdr = <<>>
                THEN [contextSetUser(areq, AnonymousUser) EXCEPT !.pc = "route"]
                ELSE IF Len(parts) # 2 THEN Rejected(areq)
                ELSE IF parts[1] # Bearer THEN Rejected(areq)
                ELSE IF ~ValidateTokenPlaintext(parts[2]) THEN Rejected(areq)
                ELSE IF got.err # "nil" THEN Rejected(looked)
                ELSE [contextSetUser(looked, LoadedUser(got.user))
                        EXCEPT !.pc = "route", !.state = "Authenticated"]
           /\ seen' =
                IF ~lookedUp THEN seen
                ELSE IF got.err = "nil" THEN seen
                ELSE IF expired THEN [seen EXCEPT !.expired = Rejected(looked).resp]
                ELSE IF never THEN [seen EXCEPT !.never = Rejected(looked).resp]
                ELSE seen
    /\ UNCHANGED <<now, users, tokens, grants>>

(* The router dispatches; on a wrapped route requireAuthenticatedUser and
   requireActivatedUser run first. *)
RequireActivatedUser ==
    /\ areq.pc = "route"
    /\ LET got == contextGetUser(areq)
       IN  areq' =
            IF RequiredPermission(areq.route) = "" THEN [areq EXCEPT !.pc = "handler"]
            ELSE IF ~got.ok THEN [areq EXCEPT !.pc = "done", !.resp = recoverPanic(PanicMissingUser)]
            ELSE IF IsAnonymous(got.user)
                 THEN [areq EXCEPT !.pc = "done", !.resp = authenticationRequiredResponse]
            ELSE IF ~got.user.Activated
                 THEN [areq EXCEPT !.pc = "done", !.resp = inactiveAccountResponse]
            ELSE [areq EXCEPT !.pc = "permission"]
    /\ UNCHANGED <<now, users, tokens, grants, seen>>

(* requirePermissions: the permission set is loaded and asked for the code. *)
RequirePermission ==
    /\ areq.pc = "permission"
    /\ LET permissions == GetAllForUser(areq.user.ID)
           loaded == [areq EXCEPT !.permsLoaded = TRUE]
       IN  areq' =
            IF PermissionsInclude(permissions, RequiredPermission(areq.route))
            THEN [loaded EXCEPT !.pc = "handler"]
            ELSE [loaded EXCEPT !.pc = "done", !.resp = notPermittedResponse]
    /\ UNCHANGED <<now, users, tokens, grants, seen>>

(* The route's handler runs. *)
ServeHandler ==
    /\ areq.pc = "handler"
    /\ areq' = [areq EXCEPT !.pc = "done", !.handled = TRUE,
                            !.resp = writeJSON(200, areq.route, {})]
    /\ UNCHANGED <<now, users, tokens, grants, seen>>

(* The route's handler runs against the movies table: POST inserts a movie,
   PATCH and DELETE address the movie of the seed row, the other routes
   leave the table alone. *)
ServeMovieHandler ==
    /\ areq.pc = "handler"
    /\ areq.route = "createMovie" => nextID <= MaxMovies
    /\ areq.route = "updateMovie" => updates[1] < MaxPatches
    /\ LET created == Merge(ZeroMovie,
                            Body(Str("Alien"), Str(1979), Str(117), Str(<<"horror">>)))
           got == MovieGet(1)
           patched == MovieUpdate(movies,
                        Merge(got.movie, Body(Str("Vertigo"), Absent, Absent, Absent)))
           deleted == MovieDelete(movies, 1)
           done(r) == [areq EXCEPT !.pc = "done", !.handled = TRUE, !.resp = r]
       IN  CASE areq.route = "createMovie" ->
                    /\ movies' = MovieInsert(movies, nextID, created)
                    /\ nextID' = nextID + 1
                    /\ areq' = done(CreatedResponse(nextID))
                    /\ UNCHANGED updates
             [] areq.route = "updateMovie" ->
                    /\ movies' = IF got.err = "nil" THEN patched.table ELSE movies
                    /\ updates' = IF got.err = "nil" /\ patched.err = "nil"
                                  THEN [updates EXCEPT ![1] = @ + 1] ELSE updates
                    /\ areq' = done(IF got.err # "nil" THEN notFoundResponse
                                    ELSE IF patched.err # "nil" THEN editConflictResponse
                                    ELSE OKResponse)
                    /\ UNCHANGED nextID
             [] areq.route = "deleteMovie" ->
                    /\ movies' = deleted.table
                    /\ areq' = done(IF deleted.err # "nil" THEN notFoundResponse
                                    ELSE DeletedResponse)
                    /\ UNCHANGED <<nextID, updates>>
             [] OTHER ->
                    /\ areq' = done(writeJSON(200, areq.route, {}))
                    /\ UNCHANGED <<movies, nextID, updates>>
    /\ UNCHANGED <<now, users, tokens, grants, seen, reqs>>

(* Time passes. *)
Tick ==
    /\ now < MaxTime
    /\ now' = now + 1
    /\ UNCHANGED <<users, tokens, grants, areq, seen>>

----------------------------------------------------------------------------
(* internal/data/tokens.go: generateToken, TokenModel.New, Insert and
   DeleteAllForUser, and the handlers of cmd/api/routes.go that call them (checked under TokenSpec). *)

Base32Alphabet ==
    <<"A", "B", "C", "D", "E", "F", "G", "H", "I", "J", "K", "L", "M", "N", "O", "P",
      "Q", "R", "S", "T", "U", "V", "W", "X", "Y", "Z", "2", "3", "4", "5", "6", "7">>

(* The eight 5-bit values of a block of up to five bytes; a missing byte
   counts as zero. *)
Base32Block(b) ==
    LET x(i) == IF i <= Len(b) THEN b[i] ELSE 0
    IN  << x(1) \div 8,
           (x(1) % 8) * 4 + x(2) \div 64,
           (x(2) \div 2) % 32,
           (x(2) % 2) * 16 + x(3) \div 16,
           (x(3) % 16) * 2 + x(4) \div 128,
           (x(4) \div 4) % 32,
           (x(4) % 4) * 8 + x(5) \div 32,
           x(5) % 32 >>

(* The characters that carry the bits of a block of n bytes. *)
Base32BlockChars(n) == (n * 8 + 4) \div 5

(* Encoding.Encode: block by block; pad is "=" for StdEncoding and <<>> for
   NoPadding. *)
RECURSIVE Base32Encode(_, _)
Base32Encode(bytes, pad) ==
    IF bytes = <<>> THEN <<>>
    ELSE LET n == IF Len(bytes) < 5 THEN Len(bytes) ELSE 5
             values == Base32Block(SubSeq(bytes, 1, n))
             chars == [i \in 1..Base32BlockChars(n) |-> Base32Alphabet[values[i] + 1]]
             padding == IF pad = <<>> THEN <<>>
                        ELSE [i \in 1..(8 - Base32BlockChars(n)) |-> pad[1]]
         IN  chars \o padding \o Base32Encode(SubSeq(bytes, n + 1, Len(bytes)), pad)

(* base32.StdEncoding.EncodeToString: '=' up to a multiple of 8 characters. *)
Base32StdPadding(bytes) == Base32Encode(bytes, <<"=">>)

(* base32.StdEncoding.WithPadding(base32.NoPadding).EncodeToString. *)
Base32NoPadding(bytes) == Base32Encode(bytes, <<>>)

(* What rand.Read may fill the byte slice with. *)
RandomSources == {Rep(0, RandomLen), Rep(255, RandomLen)}

ZeroToken ==
    [Plaintext |-> <<>>, Hash |-> Sha256(<<>>), UserID |-> 0, Expiry |-> 0, Scope |-> ""]

(* A generateToken that leaves the ttl out of the expiry. *)
generateTokenNoTTL(userID, ttl, scope, randomBytes, readErr) ==
    IF readErr THEN [err |-> "rand.Read", token |-> ZeroToken]
    ELSE LET plaintext == Base32NoPadding(randomBytes)
         IN  [err |-> "nil",
              token |-> [Plaintext |-> plaintext, Hash |-> Sha256(plaintext),
                         UserID |-> userID, Expiry |-> now, Scope |-> scope]]

(* generateToken; readErr is rand.Read returning an error. *)
generateToken(userID, ttl, scope, randomBytes, readErr) ==
    IF readErr THEN [err |-> "rand.Read", token |-> ZeroToken]
    ELSE LET plaintext == Base32NoPadding(randomBytes)
         IN  [err |-> "nil",
              token |-> [Plaintext |-> plaintext, Hash |-> Sha256(plaintext),
                         UserID |-> userID, Expiry |-> now + ttl, Scope |-> scope]]

(* TokenModel.Insert: hash is the primary key of the tokens table. *)
TokenInsert(table, token) ==
    IF \E t \in table : t.Hash = token.Hash
    THEN [err |-> "duplicate key", table |-> table]
    ELSE [err |-> "nil",
          table |-> table \cup {[Hash |-> token.Hash, UserID |-> token.UserID,
                                 Expiry |-> token.Expiry, Scope |-> token.Scope]}]

(* TokenModel.New: the token is returned also when the insert failed. *)
TokenNew(table, userID, ttl, scope, randomBytes, readErr) ==
    LET g == generateToken(userID, ttl, scope, randomBytes, readErr)
        ins == TokenInsert(table, g.token)
    IN  IF g.err # "nil" THEN [err |-> g.err, token |-> ZeroToken, table |-> table]
        ELSE [err |-> ins.err, token |-> g.token, table |-> ins.table]

(* A DeleteAllForUser whose statement leaves the scope out. *)
DeleteAllForUserAnyScope(table, scope, userID) ==
    {t \in table : ~(t.UserID = userID)}

(* A DeleteAllForUser whose statement matches no row. *)
DeleteAllForUserNoRow(table, scope, userID) == table

(* TokenModel.DeleteAllForUser: the table after the DELETE. *)
DeleteAllForUser(table, scope, userID) ==
    {t \in table : ~(t.Scope = scope /\ t.UserID = userID)}

(* rand.Read: the slice filled, or left zero with an error; the bytes of a
   token that was deleted are not drawn a second time. *)
RandomReads ==
    {[bytes |-> rb, err |-> FALSE] :
        rb \in {x \in RandomSources : Base32NoPadding(x) \notin tk.consumed}}
        \cup {[bytes |-> Rep(0, RandomLen), err |-> TRUE]}

(* The plaintexts clients hold: the stored activation token and the ones
   the handlers sent out. *)
KnownPlaintexts ==
    {Plaintext("D")} \cup {i.plain : i \in tk.issued}

NoOp ==
    [op |-> "none", token |-> ZeroToken, scope |-> "", userID |-> 0,
     err |-> "nil", status |-> 0, stored |-> FALSE, before |-> {}]

(* The history entry of a token that New stored. *)
Issuance(token, ttl, activated, via) ==
    [plain |-> token.Plaintext, user |-> token.UserID, scope |-> token.Scope,
     at |-> now, ttl |-> ttl, activated |-> activated, via |-> via]

(* registerUserHandler: a user row that is not activated, then an activation
   token for it. *)
RegisterUser ==
    /\ Cardinality(DOMAIN users) < MaxUsers
    /\ \E read \in RandomReads :
        LET id == Cardinality(DOMAIN users) + 1
            new == TokenNew(tokens, id, ActivationTTL, ScopeActivation,
                            read.bytes, read.err)
        IN  /\ users' = [u \in DOMAIN users \cup {id} |->
                            IF u = id THEN [ID |-> id, Activated |-> FALSE] ELSE users[u]]
            /\ tokens' = new.table
            /\ tk' = [tk EXCEPT
                        !.issued = IF new.err = "nil"
                                   THEN @ \cup {Issuance(new.token, ActivationTTL, FALSE,
                                                         "registerUser")}
                                   ELSE @,
                        !.last = [NoOp EXCEPT !.op = "registerUser", !.token = new.token,
                                              !.scope = ScopeActivation, !.userID = id,
                                              !.err = new.err,
                                              !.status = IF new.err = "nil" THEN 202 ELSE 500]]
    /\ UNCHANGED <<now, grants, areq, seen>>

(* activateUserHandler: the user of a valid activation token is activated
   and all activation tokens of that user are deleted. *)
ActivateUser ==
    /\ \E tok \in KnownPlaintexts \cup {Rep("A", TokenLen - 1)} :
        LET got == GetForToken(ScopeActivation, tok)
            uid == got.user.ID
            mine == {t \in tokens : t.Scope = ScopeActivation /\ t.UserID = uid}
            failed == [NoOp EXCEPT !.op = "activateUser", !.scope = ScopeActivation,
                                   !.token = [ZeroToken EXCEPT !.Plaintext = tok],
                                   !.status = 422,
                                   !.before = tokens]
        IN  IF ~ValidateTokenPlaintext(tok)
            THEN /\ tk' = [tk EXCEPT !.last = failed]
                 /\ UNCHANGED <<users, tokens>>
            ELSE IF got.err # "nil"
            THEN /\ tk' = [tk EXCEPT !.last = [failed EXCEPT !.err = got.err]]
                 /\ UNCHANGED <<users, tokens>>
            ELSE /\ users' = [users EXCEPT ![uid].Activated = TRUE]
                 /\ tokens' = DeleteAllForUser(tokens, ScopeActivation, uid)
                 /\ tk' = [tk EXCEPT
                            !.consumed = @ \cup {t.Hash.sha256 : t \in mine},
                            !.reused = @ \/ tok \in tk.consumed,
                            !.activatedUsers = @ \cup {uid},
                            !.last = [failed EXCEPT !.userID = uid, !.status = 200]]
    /\ UNCHANGED <<now, grants, areq, seen>>

(* A token request for an account that is not activated is served all the
   same. *)
IssuableToAnyUser(user) == TRUE

(* createAuthenticationTokenHandler issues to an activated user only. *)
IssuableTo(user) == user.Activated

(* createAuthenticationTokenHandler: uid is the user of the email when the
   password matches, 0 when the credentials are refused. *)
CreateAuthenticationToken ==
    /\ \E uid \in DOMAIN users \cup {0}, read \in RandomReads :
        LET new == TokenNew(tokens, uid, TokenTTL, ScopeAuthentication,
                            read.bytes, read.err)
            asked == [NoOp EXCEPT !.op = "createAuthenticationToken",
                                  !.scope = ScopeAuthentication, !.userID = uid]
        IN  IF uid = 0
            THEN /\ tk' = [tk EXCEPT !.last = [asked EXCEPT !.status = 401]]
                 /\ UNCHANGED tokens
            ELSE IF ~IssuableTo(users[uid])
            THEN /\ tk' = [tk EXCEPT !.last = [asked EXCEPT !.status = 403]]
                 /\ UNCHANGED tokens
            ELSE /\ tokens' = new.table
                 /\ tk' = [tk EXCEPT
                            !.issued = IF new.err = "nil"
                                       THEN @ \cup {Issuance(new.token, TokenTTL,
                                                             users[uid].Activated,
                                                             "createAuthenticationToken")}
                                       ELSE @,
                            !.last = [asked EXCEPT !.token = new.token, !.err = new.err,
                                                   !.status = IF new.err = "nil"
                                                              THEN 201 ELSE 500]]
    /\ UNCHANGED <<now, users, grants, areq, seen>>

(* A request looks a token up by hash, scope and expiry. *)
LookupToken ==
    /\ \E scope \in {ScopeActivation, ScopeAuthentication}, tok \in KnownPlaintexts :
        LET got == GetForToken(scope, tok)
        IN  tk' = [tk EXCEPT
                    !.last = [NoOp EXCEPT !.op = "lookup", !.scope = scope,
                                          !.token = [ZeroToken EXCEPT !.Plaintext = tok],
                                          !.userID = got.user.ID,
                                          !.err = got.err,
                                          !.stored = \E t \in tokens :
                                                        /\ t.Hash = Sha256(tok)
                                                        /\ t.Scope = scope]]
    /\ UNCHANGED <<now, users, grants, tokens, areq, seen>>

(* Time passes between two requests. *)
TickToken ==
    /\ now < MaxTime
    /\ now' = now + 1
    /\ tk' = [tk EXCEPT !.last = NoOp]
    /\ UNCHANGED <<users, tokens, grants, areq, seen>>

----------------------------------------------------------------------------
(* internal/data/users.go: the password type and the validation of a user
   (checked under UserSpec). *)

(* The zero byte, as a character of a password. *)
NUL == "NUL"

(* The bytes blowfish takes from a bcrypt key: the password and a trailing
   zero byte, repeated from the start until BcryptKeyBytes are read. *)
BlowfishKey(password) ==
    LET ckey == password \o <<NUL>>
    IN  [i \in 1..BcryptKeyBytes |-> ckey[((i - 1) % Len(ckey)) + 1]]

(* The digest of bcrypt: a value that differs whenever the key bytes, the
   cost or the salt differ. *)
BcryptDigest(password, cost, salt) ==
    [key |-> BlowfishKey(password), cost |-> cost, salt |-> salt]

NilHash == [kind |-> "nil", cost |-> 0, salt |-> "", digest |-> <<>>]

(* Byte slices that are no bcrypt hash: one shorter than a hash, one that
   does not start with '$'. *)
ShortHash == [NilHash EXCEPT !.kind = "short"]
PrefixHash == [NilHash EXCEPT !.kind = "prefix"]

(* bcrypt.GenerateFromPassword; readErr is the salt source failing. *)
GenerateFromPassword(password, cost, salt, readErr) ==
    IF readErr THEN [err |-> "rand.Read", hash |-> NilHash]
    ELSE [err |-> "nil",
          hash |-> [kind |-> "bcrypt", cost |-> cost, salt |-> salt,
                    digest |-> BcryptDigest(password, cost, salt)]]

(* bcrypt.CompareHashAndPassword: the error it returns. *)
CompareHashAndPassword(hash, password) ==
    IF hash.kind \in {"nil", "short"} THEN "ErrHashTooShort"
    ELSE IF hash.kind = "prefix" THEN "InvalidHashPrefixError"
    ELSE IF BcryptDigest(password, hash.cost, hash.salt) = hash.digest THEN "nil"
    ELSE "ErrMismatchedHashAndPassword"

NilString == [nil |-> TRUE, s |-> <<>>]
ZeroPassword == [plaintext |-> NilString, hash |-> NilHash]

(* password.Set. *)
PasswordSet(p, plaintextPassword, salt, readErr) ==
    LET g == GenerateFromPassword(plaintextPassword, BcryptCost, salt, readErr)
    IN  IF g.err # "nil" THEN [err |-> g.err, password |-> p]
        ELSE [err |-> "nil",
              password |-> [plaintext |-> [nil |-> FALSE, s |-> plaintextPassword],
                            hash |-> g.hash]]

(* A Matches that reports every failure of the comparison as a mismatch. *)
PasswordMatchesHidesErrors(p, plaintextPassword) ==
    LET err == CompareHashAndPassword(p.hash, plaintextPassword)
    IN  IF err # "nil" THEN [ok |-> FALSE, err |-> "nil"]
        ELSE [ok |-> TRUE, err |-> "nil"]

(* password.Matches. *)
PasswordMatches(p, plaintextPassword) ==
    LET err == CompareHashAndPassword(p.hash, plaintextPassword)
    IN  IF err # "nil"
        THEN IF err = "ErrMismatchedHashAndPassword"
             THEN [ok |-> FALSE, err |-> "nil"]
             ELSE [ok |-> FALSE, err |-> err]
        ELSE [ok |-> TRUE, err |-> "nil"]

(* validator.Check: the first message of a key is kept. *)
Check(v, ok, key, message) ==
    IF ok \/ \E e \in v : e[1] = key THEN v ELSE v \cup {<<key, message>>}

(* validator.Matches(email, validator.EmailRX). *)
MatchesEmailRX(email) == email \in {"alice@example.com"}

ValidateEmail(v, email) ==
    LET v1 == Check(v, email # "", "email", "must be provided")
    IN  Check(v1, MatchesEmailRX(email), "email", "must be valid email address")

ValidatePasswordPlaintext(v, password) ==
    LET v1 == Check(v, password # <<>>, "password", "must be provided")
        v2 == Check(v1, Len(password) >= MinPasswordLen, "password",
                    "must be at least 8 bytes long")
    IN  Check(v2, Len(password) <= MaxPasswordLen, "password",
              "must not be more than 72 bytes long")

(* A ValidateUser that records a missing hash as a validation error. *)
ValidateUserNoPanic(v, user) ==
    LET v1 == Check(v, user.Name # <<>>, "name", "must be provided")
        v2 == Check(v1, Len(user.Name) <= MaxNameLen, "name",
                    "must not be more than 500 bytes long")
        v3 == ValidateEmail(v2, user.Email)
        v4 == IF ~user.Password.plaintext.nil
              THEN ValidatePasswordPlaintext(v3, user.Password.plaintext.s)
              ELSE v3
    IN  [panicked |-> FALSE,
         v |-> Check(v4, user.Password.hash.kind # "nil", "password", "must be provided")]

(* ValidateUser: the validator afterwards, and whether it panicked. *)
ValidateUser(v, user) ==
    LET v1 == Check(v, user.Name # <<>>, "name", "must be provided")
        v2 == Check(v1, Len(user.Name) <= MaxNameLen, "name",
                    "must not be more than 500 bytes long")
        v3 == ValidateEmail(v2, user.Email)
        v4 == IF ~user.Password.plaintext.nil
              THEN ValidatePasswordPlaintext(v3, user.Password.plaintext.s)
              ELSE v3
    IN  [panicked |-> user.Password.hash.kind = "nil", v |-> v4]

(* The passwords a client sends. *)
Passwords ==
    { Rep("a", 8), Rep("b", 8), Rep("a", 7), <<>>,
      Rep("a", 8) \o <<NUL>> \o Rep("a", 8),
      Rep("a", 72), Rep("a", 72) \o <<"b">> }

Salts == {"salt1", "salt2"}

(* The password_hash values a row of the users table may hold. *)
StoredHashes ==
    { GenerateFromPassword(Rep("a", 8), BcryptCost, "salt1", FALSE).hash,
      ShortHash, PrefixHash }

Names == {<<>>, <<"A", "l", "i", "c", "e">>, [i \in 1..(MaxNameLen + 1) |-> "n"]}
Emails == {"", "alice", "alice@example.com"}

ZeroUser == [Name |-> <<>>, Email |-> "", Password |-> ZeroPassword]

NoCall ==
    [op |-> "none", arg |-> <<>>, ok |-> FALSE, err |-> "nil", panicked |-> FALSE,
     v |-> {}, resp |-> NoResponse]

(* A handler fills the name and the email from the request body. *)
ReadUser ==
    /\ \E name \in Names, email \in Emails :
        cred' = [user |-> [cred.user EXCEPT !.Name = name, !.Email = email],
                 last |-> NoCall]

(* user.Password.Set(input.Password). *)
SetPassword ==
    /\ \E plaintextPassword \in Passwords, salt \in Salts, readErr \in BOOLEAN :
        LET set == PasswordSet(cred.user.Password, plaintextPassword, salt, readErr)
        IN  cred' = [user |-> [cred.user EXCEPT !.Password = set.password],
                     last |-> [NoCall EXCEPT !.op = "Set", !.arg = plaintextPassword,
                                             !.err = set.err]]

(* A user row is read from the users table: the hash is scanned, there is
   no plaintext. *)
LoadUser ==
    /\ \E hash \in StoredHashes :
        cred' = [user |-> [cred.user EXCEPT
                            !.Password = [plaintext |-> NilString, hash |-> hash]],
                 last |-> NoCall]

(* user.Password.Matches(input.Password). *)
MatchesPassword ==
    /\ \E plaintextPassword \in Passwords :
        LET m == PasswordMatches(cred.user.Password, plaintextPassword)
        IN  cred' = [cred EXCEPT
                        !.last = [NoCall EXCEPT !.op = "Matches",
                                                !.arg = plaintextPassword,
                                                !.ok = m.ok, !.err = m.err]]

(* data.ValidateUser(v, user) in a handler below recoverPanic: a panic is
   answered by recoverPanic, a validator with errors by
   failedValidationResponse. *)
ValidateUserCall ==
    /\ cred.last.op # "ValidateUser"
    /\ LET r == ValidateUser({}, cred.user)
       IN  cred' = [cred EXCEPT
                        !.last = [NoCall EXCEPT
                                    !.op = "ValidateUser", !.panicked = r.panicked,
                                    !.v = r.v,
                                    !.resp = IF r.panicked THEN recoverPanic(PanicMissingHash)
                                             ELSE IF r.v # {}
                                             THEN failedValidationResponse
                                             ELSE NoResponse]]

----------------------------------------------------------------------------
(* cmd/api/middleware.go and cmd/api/routes.go: recoverPanic and rateLimit
   around the rest of the chain, with NumConns requests in flight.  srv is
   the state the chain shares between requests. *)

(* net.SplitHostPort: the host before the last colon, the port after it; an
   address with no colon is an error. *)
SplitHostPort(hostport) ==
    IF \E i \in 1..Len(hostport) : hostport[i] = ":"
    THEN LET i == CHOOSE i \in 1..Len(hostport) :
                    /\ hostport[i] = ":"
                    /\ \A j \in (i + 1)..Len(hostport) : hostport[j] # ":"
         IN  [host |-> SubSeq(hostport, 1, i - 1),
              port |-> SubSeq(hostport, i + 1, Len(hostport)), err |-> "nil"]
    ELSE [host |-> <<>>, port |-> <<>>, err |-> "missing port in address"]

(* r.RemoteAddr: two clients, the first on two ports, and an address with
   no port. *)
RemoteAddrs ==
    { <<"1", "0", ".", "1", ":", "7">>, <<"1", "0", ".", "1", ":", "8">>,
      <<"1", "0", ".", "2", ":", "7">>, <<"1", "0", ".", "1">> }
(* The addresses net/http gives the requests of a TCP connection. *)
TCPAddrs == {a \in RemoteAddrs : SplitHostPort(a).err = "nil"}
ClientIPs == {SplitHostPort(a).host : a \in TCPAddrs}

(* rate.NewLimiter(2, 4): a bucket of Burst tokens, full when made. *)
NewLimiter == Burst

(* An Allow that leaves the token in the bucket. *)
AllowWithoutTaking(limiter) == [ok |-> limiter >= 1, limiter |-> limiter]

(* Limiter.Allow: a token is taken when there is one. *)
Allow(limiter) ==
    IF limiter >= 1 THEN [ok |-> TRUE, limiter |-> limiter - 1]
    ELSE [ok |-> FALSE, limiter |-> limiter]

(* Limiter.advance: the tokens after elapsed half seconds at 2 tokens a
   second, never above the burst. *)
Advance(limiter, elapsed) ==
    IF limiter + elapsed > Burst THEN Burst ELSE limiter + elapsed

(* The errors a handler meets in a store call, and the values of the panics
   of contextGetUser and ValidateUser. *)
InternalErrors == {"pq: connection refused", "context deadline exceeded"}
PanicValues == {PanicMissingUser, PanicMissingHash}

(* The requests a handler behind requireAuthenticatedUser is called with:
   authenticate has set the anonymous user, a loaded user, or has not run. *)
ContextRequests ==
    { IdleRequest, contextSetUser(IdleRequest, AnonymousUser),
      contextSetUser(IdleRequest, LoadedUser([ID |-> 1, Activated |-> TRUE])) }

(* What the handler meets after the user was read: nothing, an error of the
   store, or the panic of ValidateUser. *)
HandlerFaults == {"nil"} \cup InternalErrors \cup {PanicMissingHash}

(* The request a handler is called with once authenticate has loaded a
   user. *)
AuthenticatedRequests ==
    {contextSetUser(IdleRequest, LoadedUser([ID |-> 1, Activated |-> TRUE]))}

IdleConn ==
    [pc |-> "idle", ip |-> <<>>, ctxUser |-> "unread", err |-> "nil",
     panicked |-> FALSE, logged |-> NoLogEntry, resp |-> NoResponse]

Conns == 1..NumConns

(* The request the log entry names. *)
LoggedRequest == [method |-> "GET", url |-> "/v1/movies"]

(* serverErrorResponse(w, r, err) ends the request on connection c of the
   process in the given state; failed
   keeps what the client of every such request was sent. *)
ServerError(state, c, headers, err) ==
    LET resp == serverErrorResponse(headers, err)
    IN  [state EXCEPT
            !.conns[c] = [@ EXCEPT !.pc = "done", !.err = err,
                                   !.logged = logError(LoggedRequest, err),
                                   !.resp = resp],
            !.failed = @ \cup {[err |-> err, status |-> resp.status,
                                message |-> resp.message]}]

(* The server accepts a request from one of addrs on a connection:
   recoverPanic calls rateLimit, which runs up to mu.Lock(). *)
Accept(c, addrs) ==
    /\ srv.alive
    /\ srv.conns[c].pc \in {"idle", "done"}
    /\ \E addr \in addrs :
        LET split == SplitHostPort(addr)
            fresh == [srv EXCEPT !.conns[c] = IdleConn]
        IN  srv' = IF split.err # "nil" THEN ServerError(fresh, c, {}, split.err)
                   ELSE [fresh EXCEPT !.conns[c].pc = "lock",
                                      !.conns[c].ip = split.host]

(* mu.Lock() returns. *)
Lock(c) ==
    /\ srv.alive
    /\ srv.conns[c].pc = "lock"
    /\ srv.mu = 0
    /\ srv' = [srv EXCEPT !.mu = c, !.conns[c].pc = "locked"]

(* The map of limiters after the lookup that makes the client's limiter when
   there is none. *)
ClientsWith(clients, ip) ==
    IF ip \in DOMAIN clients THEN clients
    ELSE [i \in DOMAIN clients \cup {ip} |-> IF i = ip THEN NewLimiter ELSE clients[i]]

(* A critical section that keeps the mutex locked while next.ServeHTTP
   runs. *)
RateLimitAllowDeferUnlock(c) ==
    /\ srv.alive
    /\ srv.conns[c].pc = "locked"
    /\ LET ip == srv.conns[c].ip
           clients == ClientsWith(srv.clients, ip)
           a == Allow(clients[ip])
       IN  srv' = [srv EXCEPT
                    !.clients = [clients EXCEPT ![ip] = a.limiter],
                    !.mu = IF a.ok THEN @ ELSE 0,
                    !.passed = IF a.ok THEN [@ EXCEPT ![ip] = @ + 1] ELSE @,
                    !.conns[c].pc = IF a.ok THEN "next" ELSE "deny",
                    !.conns[c].ip = <<>>]

(* The critical section: the client's limiter is made when the map has none
   and asked; mu.Unlock() follows on either path, before the response and
   before next.ServeHTTP. *)
RateLimitAllow(c) ==
    /\ srv.alive
    /\ srv.conns[c].pc = "locked"
    /\ LET ip == srv.conns[c].ip
           clients == ClientsWith(srv.clients, ip)
           a == Allow(clients[ip])
       IN  srv' = [srv EXCEPT
                    !.clients = [clients EXCEPT ![ip] = a.limiter],
                    !.mu = 0,
                    !.passed = IF a.ok THEN [@ EXCEPT ![ip] = @ + 1] ELSE @,
                    !.conns[c].pc = IF a.ok THEN "next" ELSE "deny",
                    !.conns[c].ip = <<>>]

(* rateLimitExceededResponse after the unlock. *)
Deny(c) ==
    /\ srv.alive
    /\ srv.conns[c].pc = "deny"
    /\ srv' = [srv EXCEPT !.conns[c].pc = "done",
                          !.conns[c].resp = rateLimitExceededResponse]

(* next.ServeHTTP: a handler behind requireAuthenticatedUser reads the user
   of the context and runs; a panic starts to unwind the stack. *)
Downstream(c, requests, faults) ==
    /\ srv.alive
    /\ srv.conns[c].pc = "next"
    /\ \E r \in requests, fault \in faults :
        LET got == contextGetUser(r)
            read == [srv EXCEPT !.conns[c].ctxUser =
                                    IF r.hasUser THEN "set" ELSE "missing"]
            panic(v) == [read EXCEPT !.conns[c].pc = "panicking",
                                     !.conns[c].err = v,
                                     !.conns[c].panicked = TRUE]
        IN  srv' =
                IF ~got.ok THEN panic(PanicMissingUser)
                ELSE IF IsAnonymous(got.user)
                     THEN [read EXCEPT !.conns[c].pc = "done",
                                       !.conns[c].resp = authenticationRequiredResponse]
                ELSE IF fault \in PanicValues THEN panic(fault)
                ELSE IF fault # "nil" THEN ServerError(read, c, {}, fault)
                ELSE [read EXCEPT !.conns[c].pc = "done", !.conns[c].resp = OKResponse]

(* The middlewares of routes(), outermost first. *)
Chain == <<"recoverPanic", "rateLimit", "authenticate", "router">>

(* The panic reaches the deferred function of recoverPanic when recoverPanic
   is on the stack; a panic no function recovers ends the process. *)
Recover(c) ==
    /\ srv.alive
    /\ srv.conns[c].pc = "panicking"
    /\ LET err == srv.conns[c].err
           resp == recoverPanic(err)
       IN  srv' =
            IF \E i \in 1..Len(Chain) : Chain[i] = "recoverPanic"
            THEN [ServerError(srv, c, {}, err) EXCEPT !.conns[c].resp = resp]
            ELSE [srv EXCEPT !.alive = FALSE]

(* Two seconds pass: at 2 tokens a second every limiter is full again. *)
Refill ==
    /\ srv.alive
    /\ \E ip \in DOMAIN srv.clients : srv.clients[ip] < Burst
    /\ srv' = [srv EXCEPT !.clients = [ip \in DOMAIN @ |-> Advance(@[ip], Burst)],
                          !.passed = [ip \in DOMAIN @ |-> 0]]

InitSrv ==
    [alive |-> TRUE, mu |-> 0, clients |-> <<>>,
     passed |-> [ip \in ClientIPs |-> 0], failed |-> {},
     conns |-> [c \in Conns |-> IdleConn]]

----------------------------------------------------------------------------
(* internal/data: every store operation runs its query under a context with
   a deadline.  job.store is the call in progress; time is counted in
   seconds left to the deadline. *)

StoreOps ==
    {"MovieInsert", "MovieGet", "MovieUpdate", "MovieDelete", "MovieGetAll",
     "TokenInsert", "TokenDeleteAllForUser", "PermissionGetAllForUser"}

(* context.WithTimeout(context.Background(), 3*time.Second) of each
   operation. *)
TimeoutOf(op) ==
    CASE op = "MovieInsert" -> StoreTimeout
      [] op = "MovieGet" -> StoreTimeout
      [] op = "MovieUpdate" -> StoreTimeout
      [] op = "MovieDelete" -> StoreTimeout
      [] op = "MovieGetAll" -> StoreTimeout
      [] op = "TokenInsert" -> StoreTimeout
      [] op = "TokenDeleteAllForUser" -> StoreTimeout
      [] op = "PermissionGetAllForUser" -> StoreTimeout

NoContext == [made |-> FALSE, left |-> 0, cancelled |-> FALSE]

(* A context that has no deadline. *)
WithoutTimeout(op) == [made |-> TRUE, left |-> 0 - 1, cancelled |-> FALSE]

(* The context of the operation's query. *)
WithTimeout(op) == [made |-> TRUE, left |-> TimeoutOf(op), cancelled |-> FALSE]

(* Get and Delete answer an id below 1 before they make a context. *)
ReturnsBeforeQuery(op, id) == op \in {"MovieGet", "MovieDelete"} /\ id < 1

(* GetAll and GetAllForUser read their rows after QueryContext returned. *)
IteratesRows(op) == op \in {"MovieGetAll", "PermissionGetAllForUser"}

ErrDeadlineExceeded == "context deadline exceeded"
ErrNoRows == "sql: no rows in result set"

(* What the database answers to a query: success, no row, a failure. *)
DriverReplies == {"nil", ErrNoRows, "pq: connection reset"}

(* The error the operation returns for the error of the driver. *)
StoreError(op, err) ==
    IF op = "MovieGet" /\ err = ErrNoRows THEN "record not found"
    ELSE IF op = "MovieUpdate" /\ err = ErrNoRows THEN "edit conflict"
    ELSE IF op = "MovieDelete" /\ err = ErrNoRows THEN "record not found"
    ELSE err

IdleStore ==
    [pc |-> "idle", op |-> "none", phase |-> "none", ctx |-> NoContext, err |-> "nil"]

(* The operation returns err; the deferred cancel runs. *)
StoreReturn(call, err) ==
    [call EXCEPT !.pc = "returned", !.err = err,
                 !.ctx.cancelled = call.ctx.made]

(* A caller starts a store operation. *)
StoreCall ==
    /\ job.store.pc \in {"idle", "returned"}
    /\ \E op \in StoreOps, id \in {0, 1} :
        job' = [job EXCEPT !.store =
                IF ReturnsBeforeQuery(op, id)
                THEN StoreReturn([IdleStore EXCEPT !.op = op], "record not found")
                ELSE [IdleStore EXCEPT !.pc = "running", !.op = op, !.phase = "query",
                                       !.ctx = WithTimeout(op)]]

(* The database answers before the deadline: the query, then the rows. *)
StoreReply ==
    /\ job.store.pc = "running"
    /\ job.store.ctx.left # 0
    /\ \E reply \in DriverReplies :
        LET call == job.store
        IN  job' = [job EXCEPT !.store =
                IF reply = "nil" /\ call.phase = "query" /\ IteratesRows(call.op)
                THEN [call EXCEPT !.phase = "rows"]
                ELSE IF reply = ErrNoRows /\ (call.phase = "rows" \/ IteratesRows(call.op))
                THEN StoreReturn(call, "nil")
                ELSE StoreReturn(call, StoreError(call.op, reply))]

(* A second passes while the query is out. *)
StoreTick ==
    /\ job.store.pc = "running"
    /\ job.store.ctx.left > 0
    /\ job' = [job EXCEPT !.store.ctx.left = @ - 1]

(* The deadline passes: the driver gives the query up. *)
StoreDeadline ==
    /\ job.store.pc = "running"
    /\ job.store.ctx.left = 0
    /\ job' = [job EXCEPT !.store = StoreReturn(@, ErrDeadlineExceeded)]

----------------------------------------------------------------------------
(* internal/mailer: Mailer.Send.  job.mail is the call in progress. *)

TemplateFiles == {"user_welcome.tmpl", "missing.tmpl"}
ErrTemplate == "template: pattern matches no files"
ErrExecute == "template: error calling index"

(* template.ParseFS and the three ExecuteTemplate calls: the first error,
   for a file that is not embedded or data the template cannot use. *)
RenderError(templateFile, data) ==
    IF templateFile # "user_welcome.tmpl" THEN ErrTemplate
    ELSE IF data = "bad" THEN ErrExecute
    ELSE "nil"

(* What DialAndSend returns. *)
DialResults == {"nil", "dial tcp: i/o timeout", "535 authentication failed"}

(* A loop that goes round once more. *)
LoopContinuesOnceMore(i) == i <= MaxTries + 1

(* for i := 1; i <= 3; i++ *)
LoopContinues(i) == i <= MaxTries

IdleMail ==
    [pc |-> "idle", i |-> 0, results |-> <<>>, err |-> "nil", ret |-> "nil",
     rendered |-> FALSE]

(* Send is called: the templates are parsed and executed, the message is
   made, and the loop is entered. *)
SendCall ==
    /\ job.mail.pc \in {"idle", "returned"}
    /\ \E templateFile \in TemplateFiles, data \in {"ok", "bad"} :
        LET err == RenderError(templateFile, data)
        IN  job' = [job EXCEPT !.mail =
                IF err # "nil"
                THEN [IdleMail EXCEPT !.pc = "returned", !.err = err, !.ret = err]
                ELSE IF LoopContinues(1)
                THEN [IdleMail EXCEPT !.pc = "dial", !.i = 1, !.rendered = TRUE]
                ELSE [IdleMail EXCEPT !.pc = "returned", !.rendered = TRUE]]

(* One round of the loop up to the sleep: DialAndSend returns. *)
DialAndSend ==
    /\ job.mail.pc = "dial"
    /\ \E result \in DialResults :
        job' = [job EXCEPT !.mail =
                [@ EXCEPT !.results = Append(@, result), !.err = result,
                          !.pc = IF result = "nil" THEN "returned" ELSE "sleep",
                          !.ret = "nil"]]

(* time.Sleep returns, i++ and the loop test; after the loop err is
   returned. *)
SleepAndNext ==
    /\ job.mail.pc = "sleep"
    /\ LET m == job.mail
       IN  job' = [job EXCEPT !.mail =
                IF LoopContinues(m.i + 1)
                THEN [m EXCEPT !.pc = "dial", !.i = m.i + 1]
                ELSE [m EXCEPT !.pc = "returned", !.i = m.i + 1, !.ret = m.err]]

InitJob == [store |-> IdleStore, mail |-> IdleMail]

----------------------------------------------------------------------------
InitUsers ==
    [u \in 1..3 |-> [ID |-> u, Activated |-> u # 3]]

(* User 1 holds both codes, users 2 and 3 hold movies:read. *)
InitGrants == {<<1, 1>>, <<1, 2>>, <<2, 1>>, <<3, 1>>}

InitTokens ==
    { TokenRow("A", 1, TokenTTL, ScopeAuthentication),
      TokenRow("B", 2, TokenTTL, ScopeAuthentication),
      TokenRow("C", 3, TokenTTL, ScopeAuthentication),
      TokenRow("D", 1, TokenTTL, ScopeActivation) }

Init ==
    /\ movies = [i \in {1} |-> SeedRow]
    /\ nextID = 2
    /\ updates = [i \in MovieIDs |-> 0]
    /\ reqs = [s \in Slots |-> IdleFrame]
    /\ now = 0
    /\ users = InitUsers
    /\ grants = InitGrants
    /\ tokens = InitTokens
    /\ areq = IdleRequest
    /\ seen = [expired |-> NoResponse, never |-> NoResponse]
    /\ tk = [issued |-> {}, consumed |-> {}, reused |-> FALSE, activatedUsers |-> {},
             last |-> NoOp]
    /\ cred = [user |-> ZeroUser, last |-> NoCall]
    /\ srv = InitSrv
    /\ job = InitJob

Next ==
    \/ \E s \in Slots : UpdateRead(s) /\ UNCHANGED <<authVars, lifeVars, credVars, chainVars, jobVars>>
    \/ \E s \in Slots : UpdateWrite(s) /\ UNCHANGED <<authVars, lifeVars, credVars, chainVars, jobVars>>
    \/ \E s \in Slots : DeleteMovie(s) /\ UNCHANGED <<authVars, lifeVars, credVars, chainVars, jobVars>>
    \/ \E s \in Slots : CreateMovie(s) /\ UNCHANGED <<authVars, lifeVars, credVars, chainVars, jobVars>>

Spec == Init /\ [][Next]_vars

NextAuth ==
    \/ Arrive /\ UNCHANGED <<movieVars, lifeVars, credVars, chainVars, jobVars>>
    \/ Authenticate /\ UNCHANGED <<movieVars, lifeVars, credVars, chainVars, jobVars>>
    \/ RequireActivatedUser /\ UNCHANGED <<movieVars, lifeVars, credVars, chainVars, jobVars>>
    \/ RequirePermission /\ UNCHANGED <<movieVars, lifeVars, credVars, chainVars, jobVars>>
    \/ ServeHandler /\ UNCHANGED <<movieVars, lifeVars, credVars, chainVars, jobVars>>
    \/ Tick /\ UNCHANGED <<movieVars, lifeVars, credVars, chainVars, jobVars>>

AuthSpec == Init /\ [][NextAuth]_vars

gateFrame == <<lifeVars, credVars, chainVars, jobVars>>

NextGate ==
    \/ Arrive /\ UNCHANGED <<movieVars, gateFrame>>
    \/ Authenticate /\ UNCHANGED <<movieVars, gateFrame>>
    \/ RequireActivatedUser /\ UNCHANGED <<movieVars, gateFrame>>
    \/ RequirePermission /\ UNCHANGED <<movieVars, gateFrame>>
    \/ ServeMovieHandler /\ UNCHANGED gateFrame
    \/ Tick /\ UNCHANGED <<movieVars, gateFrame>>

GateSpec == Init /\ [][NextGate]_vars

NextToken ==
    \/ RegisterUser /\ UNCHANGED <<movieVars, credVars, chainVars, jobVars>>
    \/ ActivateUser /\ UNCHANGED <<movieVars, credVars, chainVars, jobVars>>
    \/ CreateAuthenticationToken /\ UNCHANGED <<movieVars, credVars, chainVars, jobVars>>
    \/ LookupToken /\ UNCHANGED <<movieVars, credVars, chainVars, jobVars>>
    \/ TickToken /\ UNCHANGED <<movieVars, credVars, chainVars, jobVars>>

TokenSpec == Init /\ [][NextToken]_vars

NextUser ==
    \/ ReadUser /\ UNCHANGED <<movieVars, authVars, lifeVars, chainVars, jobVars>>
    \/ SetPassword /\ UNCHANGED <<movieVars, authVars, lifeVars, chainVars, jobVars>>
    \/ LoadUser /\ UNCHANGED <<movieVars, authVars, lifeVars, chainVars, jobVars>>
    \/ MatchesPassword /\ UNCHANGED <<movieVars, authVars, lifeVars, chainVars, jobVars>>
    \/ ValidateUserCall /\ UNCHANGED <<movieVars, authVars, lifeVars, chainVars, jobVars>>

UserSpec == Init /\ [][NextUser]_vars

chainFrame == <<movieVars, authVars, lifeVars, credVars, jobVars>>

NextLimit ==
    \/ \E c \in Conns : Accept(c, TCPAddrs) /\ UNCHANGED chainFrame
    \/ \E c \in Conns : Lock(c) /\ UNCHANGED chainFrame
    \/ \E c \in Conns : RateLimitAllow(c) /\ UNCHANGED chainFrame
    \/ \E c \in Conns : Deny(c) /\ UNCHANGED chainFrame
    \/ \E c \in Conns : Downstream(c, AuthenticatedRequests, {"nil"}) /\ UNCHANGED chainFrame
    \/ Refill /\ UNCHANGED chainFrame

LimitSpec == Init /\ [][NextLimit]_vars

NextPanic ==
    \/ Accept(1, RemoteAddrs) /\ UNCHANGED chainFrame
    \/ Lock(1) /\ UNCHANGED chainFrame
    \/ RateLimitAllow(1) /\ UNCHANGED chainFrame
    \/ Deny(1) /\ UNCHANGED chainFrame
    \/ Downstream(1, ContextRequests, HandlerFaults) /\ UNCHANGED chainFrame
    \/ Recover(1) /\ UNCHANGED chainFrame
    \/ Refill /\ UNCHANGED chainFrame

PanicSpec == Init /\ [][NextPanic]_vars

(* sync.Mutex hands the lock to a goroutine that has waited (starvation
   mode), and the critical section runs to its Unlock; nothing is assumed of
   the handlers downstream, of the clients or of the clock. *)
LimitFairness ==
    /\ \A c \in Conns : SF_vars(Lock(c) /\ UNCHANGED chainFrame)
    /\ WF_vars(\E c \in Conns : RateLimitAllow(c) /\ UNCHANGED chainFrame)

LimitFairSpec == LimitSpec /\ LimitFairness

jobFrame == <<movieVars, authVars, lifeVars, credVars, chainVars>>

NextJob ==
    \/ StoreCall /\ UNCHANGED jobFrame
    \/ StoreReply /\ UNCHANGED jobFrame
    \/ StoreTick /\ UNCHANGED jobFrame
    \/ StoreDeadline /\ UNCHANGED jobFrame
    \/ SendCall /\ UNCHANGED jobFrame
    \/ DialAndSend /\ UNCHANGED jobFrame
    \/ SleepAndNext /\ UNCHANGED jobFrame

(* Time passes and a context whose deadline has passed ends its query; the
   database need not answer and callers need not call. *)
StoreFairness ==
    /\ WF_vars(StoreTick /\ UNCHANGED jobFrame)
    /\ WF_vars(StoreDeadline /\ UNCHANGED jobFrame)

(* DialAndSend returns (the dialer has a timeout) and the sleep ends. *)
MailFairness ==
    /\ WF_vars(DialAndSend /\ UNCHANGED jobFrame)
    /\ WF_vars(SleepAndNext /\ UNCHANGED jobFrame)

(* A store operation of a handler and a Send of the background. *)
JobSpec == Init /\ [][NextJob]_vars /\ StoreFairness /\ MailFairness

----------------------------------------------------------------------------
(* Optimistic concurrency of the movie handlers (checked under Spec). *)

(* The frame of an updateMovieHandler that has called Movies.Update. *)
Wrote(s) == reqs[s].kind = "update" /\ reqs[s].pc = "done" /\ reqs[s].called
Won(s) == Wrote(s) /\ reqs[s].err = "nil"
Lost(s) == Wrote(s) /\ reqs[s].err = "ErrEditConflict"
Deleted(s, id) ==
    reqs[s].kind = "delete" /\ reqs[s].pc = "done" /\ reqs[s].id = id
        /\ reqs[s].err = "nil"

(* Two updates of one movie that both read version v. *)
SameRead(a, b) ==
    a # b /\ Wrote(a) /\ Wrote(b) /\ reqs[a].id = reqs[b].id
        /\ reqs[a].read = reqs[b].read

(* C1: of two update requests that read the same version v of a movie and
   both called Update, never both succeed; the one that succeeds returns
   version v+1 with 200, the one that fails returns ErrEditConflict with 409;
   and both fail only when a third writer (another update or a delete of that
   movie) succeeded. *)
C1_ExactlyOneUpdateWins ==
    \A a, b \in Slots :
        SameRead(a, b) =>
            /\ ~(Won(a) /\ Won(b))
            /\ \A x \in {a, b} :
                /\ Won(x) \/ Lost(x)
                /\ Won(x) => /\ reqs[x].movie.Version = reqs[x].read + 1
                             /\ reqs[x].resp.status = 200
                /\ Lost(x) => reqs[x].resp.status = 409
            /\ (Lost(a) /\ Lost(b)) =>
                    \E c \in Slots \ {a, b} :
                        \/ Won(c) /\ reqs[c].id = reqs[a].id
                        \/ Deleted(c, reqs[a].id)

C1_Witness ==
    \E a, b \in Slots :
        SameRead(a, b) /\ Won(a) /\ Lost(b)
            /\ \A c \in Slots \ {a, b} : reqs[c].pc = "idle"

(* C2: a stored movie's version is 1 on Insert, never decreases, and equals 1
   plus the number of Update calls on it that returned nil; an Update that
   returns an error leaves the table as it was. *)
C2_VersionCountsUpdates ==
    /\ [](\A id \in DOMAIN movies : movies[id].Version = InitialVersion + updates[id])
    /\ [][ /\ \A id \in DOMAIN movies' \ DOMAIN movies :
                movies'[id].Version = InitialVersion
           /\ \A id \in DOMAIN movies' \cap DOMAIN movies :
                movies'[id].Version >= movies[id].Version
           /\ \A s \in Slots :
                (reqs[s].pc = "update" /\ reqs'[s].pc = "done"
                    /\ reqs'[s].err # "nil") => movies' = movies ]_vars

C2_Witness ==
    \E id \in DOMAIN movies, a, b \in Slots :
        /\ updates[id] = 2 /\ movies[id].Version = 3
        /\ Won(a) /\ Won(b) /\ a # b
        /\ \E c \in Slots : Lost(c)

(* C3: an Update that finds the movie deleted since the handler's Get returns
   ErrEditConflict, the response is 409, and the row is not there again. *)
C3_DeletedMeansConflict ==
    \A s \in Slots :
        (Wrote(s) /\ reqs[s].gone) =>
            /\ reqs[s].err = "ErrEditConflict"
            /\ reqs[s].resp = editConflictResponse
            /\ reqs[s].resp.status = 409
            /\ reqs[s].id \notin DOMAIN movies

C3_Witness ==
    \E s, d \in Slots :
        Wrote(s) /\ reqs[s].gone /\ reqs[s].read >= 1 /\ Deleted(d, reqs[s].id)

(* C4: an Update commits only if, at the moment of the statement, the stored
   version equals the version the handler read; a passed pre-check does not
   change that. *)
C4_CommitNeedsStoredVersion ==
    [][ \A s \in Slots :
            (reqs[s].pc = "update" /\ reqs'[s].pc = "done") =>
                IF reqs[s].id \in DOMAIN movies
                      /\ movies[reqs[s].id].Version = reqs[s].read
                THEN reqs'[s].err = "nil"
                ELSE /\ movies' = movies
                     /\ reqs'[s].err = "ErrEditConflict"
                     /\ reqs'[s].resp.status = 409 ]_vars

(* The pre-check passed on a supplied header, and the write still lost. *)
C4_Witness ==
    \E s \in Slots :
        /\ Lost(s)
        /\ reqs[s].hdr # <<>>
        /\ reqs[s].hdr = FormatInt(reqs[s].read)
        /\ ~reqs[s].gone

(* C5: an update request whose X-Expected-Version differs from the version
   just read is answered 409 without Movies.Update being called, and the
   step leaves the movies table unchanged. *)
HeaderDiffers(s) ==
    /\ reqs[s].kind = "update" /\ reqs[s].pc # "idle"
    /\ reqs[s].read >= 1
    /\ reqs[s].hdr # <<>>
    /\ reqs[s].hdr # FormatInt(reqs[s].read)

C5_MismatchRejectedBeforeWrite ==
    /\ [](\A s \in Slots :
            HeaderDiffers(s) =>
                /\ reqs[s].pc = "done"
                /\ reqs[s].resp = editConflictResponse
                /\ reqs[s].resp.status = 409
                /\ ~reqs[s].called)
    /\ [][ \A s \in Slots :
              (reqs[s].pc = "idle" /\ HeaderDiffers(s)') =>
                  <<movies, nextID, updates>>' = <<movies, nextID, updates>> ]_vars

C5_Witness ==
    \E s \in Slots : HeaderDiffers(s) /\ reqs[s].hdr = <<"0", "1">> /\ reqs[s].read = 1

----------------------------------------------------------------------------
(* Authentication and the permission gate (checked under AuthSpec). *)

Gated == RequiredPermission(areq.route) # ""

(* The user holds the code in users_permissions. *)
HoldsPermission(uid, code) ==
    \E pid \in 1..Len(PermissionCodes) :
        PermissionCodes[pid] = code /\ <<uid, pid>> \in grants

ActivatedUserAtGate ==
    Gated /\ areq.state = "Authenticated" /\ areq.user.Activated

(* C6: on a permission-gated route an anonymous request ends in 401, an
   activated user without the required code ends in 403, an activated user
   with the code reaches the handler; the handler does not run in the first
   two cases. *)
C6_GateOutcome ==
    /\ (Gated /\ areq.state = "Anonymous") =>
            /\ ~areq.handled
            /\ areq.pc = "done" => areq.resp.status = 401
    /\ (ActivatedUserAtGate
            /\ ~HoldsPermission(areq.user.ID, RequiredPermission(areq.route))) =>
            /\ ~areq.handled
            /\ areq.pc = "done" => areq.resp.status = 403
    /\ (ActivatedUserAtGate
            /\ HoldsPermission(areq.user.ID, RequiredPermission(areq.route))) =>
            /\ areq.pc = "done" => (areq.handled /\ areq.resp.status = 200)

C6_Witness ==
    /\ ActivatedUserAtGate
    /\ areq.route = "createMovie"
    /\ areq.user.ID = 2
    /\ areq.pc = "done"
    /\ areq.resp.status = 403
    /\ ~areq.handled

(* C7: an authenticated user who is not activated is answered
   InactiveAccount (403) on a gated route, also when the user holds the
   required code; the permission set is loaded only for a user who passed
   the activation check. *)
C7_ActivationBeforePermission ==
    /\ (Gated /\ areq.state = "Authenticated" /\ ~areq.user.Activated) =>
            /\ ~areq.permsLoaded
            /\ ~areq.handled
            /\ areq.pc = "done" =>
                /\ areq.resp.status = 403
                /\ areq.resp.message =
                    "your user account must be activated to access this resource"
    /\ areq.permsLoaded =>
            /\ areq.hasUser
            /\ ~IsAnonymous(areq.user)
            /\ areq.user.Activated

C7_Witness ==
    /\ areq.state = "Authenticated"
    /\ areq.user.ID = 3
    /\ ~areq.user.Activated
    /\ areq.route = "listMovies"
    /\ HoldsPermission(3, RequiredPermission("listMovies"))
    /\ areq.pc = "done"
    /\ areq.resp.status = 403
    /\ ~areq.permsLoaded

(* C8: a request without an Authorization header is not rejected by
   authenticate: its state stays Anonymous and it goes on with the anonymous
   user in its context, which is no user of the users table and is not
   activated; only the gate of a wrapped route stops it, with 401. *)
C8_NoHeaderStaysAnonymous ==
    /\ (areq.hdr = <<>> /\ areq.pc \notin {"idle", "authenticate"}) =>
            /\ areq.state = "Anonymous"
            /\ areq.hasUser
            /\ areq.user = AnonymousUser
            /\ IsAnonymous(areq.user)
            /\ ~areq.user.Activated
            /\ \A u \in DOMAIN users :
                /\ LoadedUser(users[u]) # areq.user
                /\ ~IsAnonymous(LoadedUser(users[u]))
            /\ areq.resp # invalidAuthenticationTokenResponse
            /\ (~Gated /\ areq.pc = "done") => areq.handled
            /\ (Gated /\ areq.pc = "done") =>
                    areq.resp = authenticationRequiredResponse
    /\ areq.state = "Authenticated" => ~IsAnonymous(areq.user)

C8_Witness ==
    /\ areq.hdr = <<>>
    /\ areq.route = "healthcheck"
    /\ areq.pc = "done"
    /\ areq.handled
    /\ areq.user = AnonymousUser

(* C9: a request whose Authorization header is present and malformed is
   answered 401 InvalidAuthenticationToken with the header
   WWW-Authenticate: Bearer, and the handler does not run. *)
C9_MalformedHeaderChallenged ==
    (areq.hdr \in MalformedHeaders /\ areq.pc = "done") =>
        /\ areq.state = "Rejected"
        /\ areq.resp.status = 401
        /\ areq.resp.message = "invalid or missing authentication token"
        /\ HeaderGet(areq.resp.headers, KeyWWWAuthenticate) = "Bearer"
        /\ ~areq.handled

(* A stored authentication token with this plaintext that had not expired
   at the given time. *)
MatchingRow(tok, at) ==
    \E t \in tokens :
        t.Hash = Sha256(tok) /\ t.Scope = ScopeAuthentication /\ t.Expiry > at

RejectedOutcome ==
    /\ areq.pc = "done"
    /\ areq.state = "Rejected"
    /\ areq.resp.status = 401
    /\ areq.resp.message = "invalid or missing authentication token"
    /\ ~areq.hasUser
    /\ ~areq.handled

(* C10: a Bearer header whose token is not 26 characters long is rejected
   with InvalidAuthenticationToken (401) without a lookup in the tokens
   table; one whose token has no stored row of the authentication scope with
   an expiry later than the time of the lookup is rejected the same way; in
   both cases no user is attached and the handler does not run. *)
C10_BadTokenRejected ==
    \A tok \in PresentedTokens :
        (areq.hdr = BearerHeader(tok) /\ areq.pc \notin {"idle", "authenticate"}) =>
            /\ Len(tok) # TokenLen => (RejectedOutcome /\ areq.lookups = 0)
            /\ (Len(tok) = TokenLen /\ ~MatchingRow(tok, areq.lookupAt)) =>
                    (RejectedOutcome /\ areq.lookups = 1)

C10_Witness ==
    /\ areq.hdr = BearerHeader(Rep("A", TokenLen + 1))
    /\ RejectedOutcome
    /\ areq.lookups = 0

C10_WitnessExpired ==
    /\ areq.hdr = BearerHeader(Plaintext("A"))
    /\ areq.lookupAt >= TokenTTL
    /\ RejectedOutcome
    /\ areq.lookups = 1

(* C11: a 26-character token whose row has expired and a 26-character token
   that has no row are answered with the same response: the same status,
   the same headers and the same body. *)
C11_ExpiredSameAsNeverIssued ==
    /\ (seen.expired # NoResponse /\ seen.never # NoResponse) =>
            seen.expired = seen.never
    /\ \A tok \in PresentedTokens :
            (/\ areq.hdr = BearerHeader(tok)
             /\ Len(tok) = TokenLen
             /\ areq.state = "Rejected"
             /\ seen.never # NoResponse) =>
                /\ areq.resp.status = seen.never.status
                /\ areq.resp.headers = seen.never.headers
                /\ areq.resp.message = seen.never.message

C11_Witness ==
    /\ seen.expired # NoResponse
    /\ seen.never # NoResponse
    /\ areq.hdr = BearerHeader(Plaintext("A"))
    /\ areq.lookupAt >= TokenTTL
    /\ areq.state = "Rejected"
    /\ areq.resp = seen.expired

(* The stored rows that authenticate the presented token at the time of the
   lookup of the request. *)
AuthenticatingRows ==
    {t \in tokens : /\ areq.hdr = BearerHeader(t.Hash.sha256)
                    /\ t.Hash = Sha256(Split(areq.hdr, " ")[2])
                    /\ t.Scope = "authentication"
                    /\ t.Expiry > areq.lookupAt}

(* C12: a request is Authenticated only when the tokens table holds a row
   with the hash of the presented token, the authentication scope and an
   expiry later than the time of the lookup, and the user attached to the
   request is the user_id of that row; a request presenting a stored
   activation token is never Authenticated. *)
C12_AuthenticatedOnlyByStoredToken ==
    /\ areq.state = "Authenticated" =>
            /\ areq.lookups = 1
            /\ areq.hasUser
            /\ \E t \in AuthenticatingRows :
                    /\ areq.user.ID = t.UserID
                    /\ areq.user = LoadedUser(users[t.UserID])
            /\ \A t \in AuthenticatingRows : areq.user.ID = t.UserID
    /\ areq.hdr = BearerHeader(Plaintext("D")) => areq.state # "Authenticated"

C12_Witness ==
    /\ areq.state = "Authenticated"
    /\ areq.hdr = BearerHeader(Plaintext("B"))
    /\ areq.user.ID = 2
    /\ areq.lookupAt < TokenTTL

C12_WitnessActivationToken ==
    /\ areq.hdr = BearerHeader(Plaintext("D"))
    /\ areq.lookupAt < TokenTTL
    /\ areq.lookups = 1
    /\ areq.state = "Rejected"

----------------------------------------------------------------------------
(* The token lifecycle (checked under TokenSpec). *)

(* The stored row of an issued token. *)
RowOf(i) == {t \in tokens : t.Hash = Sha256(i.plain)}

(* The last operation was a lookup of the issued token by its hash and
   scope. *)
LookedUp(i) ==
    /\ tk.last.op = "lookup"
    /\ tk.last.token.Plaintext = i.plain
    /\ tk.last.scope = i.scope

(* The statement of C13 as it was made: every lookup of an issued token
   before its expiry succeeds. *)
C13_LookupSucceedsUntilExpiry ==
    \A i \in tk.issued :
        /\ \A t \in RowOf(i) : t.Expiry = i.at + i.ttl
        /\ LookedUp(i) => (tk.last.err = "nil" <=> now < i.at + i.ttl)

(* C13: a token stored by New has expiry = time of issue + ttl; a lookup by
   its hash and scope before the expiry succeeds and returns its user as
   long as DeleteAllForUser has not removed its row; a lookup at or after
   the expiry never succeeds. *)
C13_LookupSucceedsWhileStoredUntilExpiry ==
    \A i \in tk.issued :
        /\ \A t \in RowOf(i) : t.Expiry = i.at + i.ttl
        /\ LookedUp(i) =>
            /\ (now < i.at + i.ttl /\ tk.last.stored) =>
                    (tk.last.err = "nil" /\ tk.last.userID = i.user)
            /\ now >= i.at + i.ttl => tk.last.err # "nil"
            /\ ~tk.last.stored => tk.last.err # "nil"

C13_Witness ==
    \E i \in tk.issued :
        /\ LookedUp(i)
        /\ i.at < now
        /\ now < i.at + i.ttl
        /\ tk.last.err = "nil"

C13_WitnessExpired ==
    \E i \in tk.issued :
        /\ LookedUp(i)
        /\ RowOf(i) # {}
        /\ now >= i.at + i.ttl
        /\ tk.last.err # "nil"

(* The last operation generated a token. *)
Generated ==
    /\ tk.last.op \in {"registerUser", "createAuthenticationToken"}
    /\ tk.last.token # ZeroToken

(* C14: the plaintext of a generated token has 26 characters and passes
   ValidateTokenPlaintext; its hash is the SHA-256 of the plaintext, whatever
   the user, the scope and the time, and the stored row is found under the
   hash of the plaintext. *)
C14_GeneratedPlaintextAndHash ==
    /\ Generated =>
        /\ Len(tk.last.token.Plaintext) = 26
        /\ ValidateTokenPlaintext(tk.last.token.Plaintext)
        /\ tk.last.token.Hash = Sha256(tk.last.token.Plaintext)
        /\ tk.last.err = "nil" =>
            /\ \E t \in tokens :
                /\ t.Hash = Sha256(tk.last.token.Plaintext)
                /\ t.UserID = tk.last.token.UserID
                /\ t.Scope = tk.last.token.Scope
                /\ t.Expiry = tk.last.token.Expiry
            /\ GetForToken(tk.last.token.Scope, tk.last.token.Plaintext).err = "nil"
    /\ \A i \in tk.issued :
        /\ ValidateTokenPlaintext(i.plain)
        /\ i.plain \notin tk.consumed =>
                \E t \in tokens : /\ t.Hash = Sha256(i.plain)
                                  /\ t.UserID = i.user
                                  /\ t.Scope = i.scope

C14_Witness ==
    /\ Generated
    /\ tk.last.op = "createAuthenticationToken"
    /\ tk.last.err = "nil"
    /\ tk.last.token.Plaintext = Rep("7", 25) \o <<"4">>

(* The rows of a table with this scope and this user. *)
RowsFor(table, scope, userID) ==
    {t \in table : t.Scope = scope /\ t.UserID = userID}

(* C15: DeleteAllForUser(scope, userID) removes the rows with this scope and
   this user and leaves every other row as it was; after activateUser the
   tokens table is the table before without the activation tokens of the
   user. *)
C15_DeleteAllForUserFrame ==
    /\ \A scope \in {ScopeActivation, ScopeAuthentication}, uid \in DOMAIN users :
        LET after == DeleteAllForUser(tokens, scope, uid)
        IN  /\ after \subseteq tokens
            /\ RowsFor(after, scope, uid) = {}
            /\ tokens \ after = RowsFor(tokens, scope, uid)
    /\ (tk.last.op = "activateUser" /\ tk.last.status = 200) =>
        /\ tokens \subseteq tk.last.before
        /\ RowsFor(tokens, ScopeActivation, tk.last.userID) = {}
        /\ tk.last.before \ tokens = RowsFor(tk.last.before, ScopeActivation, tk.last.userID)

C15_Witness ==
    /\ tk.last.op = "activateUser"
    /\ tk.last.status = 200
    /\ tk.last.userID = 1
    /\ RowsFor(tk.last.before, ScopeActivation, 1) # {}
    /\ RowsFor(tokens, ScopeAuthentication, 1) # {}
    /\ \E t \in tokens : t.Scope = ScopeActivation /\ t.UserID # 1

(* C16: after activateUser succeeded for a user, the user is activated, no
   activation token of the user is stored, and no activateUser with a token
   that was deleted by an earlier activation succeeds. *)
C16_ActivationConsumesTokens ==
    /\ ~tk.reused
    /\ \A u \in tk.activatedUsers :
        /\ users[u].Activated
        /\ RowsFor(tokens, ScopeActivation, u) = {}
    /\ \A p \in tk.consumed :
        /\ \A t \in tokens : t.Hash # Sha256(p)
        /\ GetForToken(ScopeActivation, p).err # "nil"
    /\ (tk.last.op = "activateUser" /\ tk.last.status = 200) =>
        /\ tk.last.userID \in tk.activatedUsers
        /\ tk.last.token.Plaintext \in tk.consumed

C16_Witness ==
    /\ tk.last.op = "activateUser"
    /\ tk.last.status = 422
    /\ tk.last.token.Plaintext \in tk.consumed
    /\ \E i \in tk.issued :
        /\ i.plain = tk.last.token.Plaintext
        /\ now < i.at + i.ttl
        /\ i.user \in tk.activatedUsers
        /\ ~i.activated

(* C17: createAuthenticationToken stores an authentication token only for a
   user whose activated flag is true at that time. *)
C17_IssuedToActivatedOnly ==
    /\ \A i \in tk.issued :
        i.via = "createAuthenticationToken" =>
            (i.scope = ScopeAuthentication /\ i.activated /\ users[i.user].Activated)
    /\ \A t \in tokens \ InitTokens :
        t.Scope = ScopeAuthentication => users[t.UserID].Activated
    /\ (tk.last.op = "createAuthenticationToken" /\ tk.last.userID # 0
            /\ ~users[tk.last.userID].Activated) =>
        /\ tk.last.status = 403
        /\ tk.last.token = ZeroToken

C17_Witness ==
    /\ tk.last.op = "createAuthenticationToken"
    /\ tk.last.status = 201
    /\ \E i \in tk.issued :
        /\ i.via = "createAuthenticationToken"
        /\ i.user = tk.last.userID
        /\ RowOf(i) # {}

C17_WitnessRefused ==
    /\ tk.last.op = "createAuthenticationToken"
    /\ tk.last.userID = 4
    /\ tk.last.status = 403

----------------------------------------------------------------------------
(* The password and the validation of a user (checked under UserSpec). *)

(* The password of the user was set from a plaintext of 8 to 72 bytes and
   the last call was Matches. *)
MatchedAfterSet ==
    /\ cred.last.op = "Matches"
    /\ ~cred.user.Password.plaintext.nil
    /\ Len(cred.user.Password.plaintext.s) >= MinPasswordLen
    /\ Len(cred.user.Password.plaintext.s) <= MaxPasswordLen

(* C18: after Set(p) with p of 8 to 72 bytes, Matches(p) returns
   (true, nil) and Matches(p2) returns (false, nil) for every p2 that is
   not p. *)
C18_SetThenMatches ==
    MatchedAfterSet =>
        /\ cred.last.err = "nil"
        /\ cred.last.ok <=> cred.last.arg = cred.user.Password.plaintext.s

(* What holds of Set and Matches: Matches(p2) returns (true, nil) exactly
   when p2 and p give bcrypt the same key bytes. *)
C18_MatchesIffSameKeyBytes ==
    MatchedAfterSet =>
        /\ cred.last.err = "nil"
        /\ cred.last.arg = cred.user.Password.plaintext.s => cred.last.ok
        /\ cred.last.ok <=>
            BlowfishKey(cred.last.arg) = BlowfishKey(cred.user.Password.plaintext.s)

C18_WitnessLongerMatches ==
    /\ MatchedAfterSet
    /\ cred.user.Password.plaintext.s = Rep("a", 72)
    /\ cred.last.arg = Rep("a", 72) \o <<"b">>
    /\ cred.last.ok

C18_WitnessRepeatedMatches ==
    /\ MatchedAfterSet
    /\ cred.user.Password.plaintext.s = Rep("a", 8)
    /\ cred.last.arg = Rep("a", 8) \o <<NUL>> \o Rep("a", 8)
    /\ cred.last.ok

(* C19: Matches returns (false, nil) when the stored value is a bcrypt hash
   of another password, (false, err) with an error when the stored value is
   no bcrypt hash, and (true, nil) only when the comparison succeeded. *)
C19_MismatchIsNotAnError ==
    cred.last.op = "Matches" =>
        /\ cred.last.ok => cred.last.err = "nil"
        /\ cred.user.Password.hash.kind = "bcrypt" =>
            /\ cred.last.err = "nil"
            /\ cred.last.ok <=>
                (BcryptDigest(cred.last.arg, cred.user.Password.hash.cost,
                              cred.user.Password.hash.salt)
                    = cred.user.Password.hash.digest)
        /\ cred.user.Password.hash.kind # "bcrypt" =>
            /\ ~cred.last.ok
            /\ cred.last.err \notin {"nil", "ErrMismatchedHashAndPassword"}

C19_Witness ==
    /\ cred.last.op = "Matches"
    /\ cred.user.Password.hash = PrefixHash
    /\ ~cred.last.ok
    /\ cred.last.err = "InvalidHashPrefixError"

C19_WitnessMismatch ==
    /\ cred.last.op = "Matches"
    /\ cred.user.Password.hash.kind = "bcrypt"
    /\ cred.last.arg = Rep("b", 8)
    /\ ~cred.last.ok
    /\ cred.last.err = "nil"

(* C20: ValidateUser on a user whose password hash is nil panics, whatever
   the name, the email and the plaintext are, and the request is not
   answered with the 422 of a failed validation; with a hash it does not
   panic. *)
C20_NilHashPanics ==
    cred.last.op = "ValidateUser" =>
        /\ cred.last.panicked <=> cred.user.Password.hash = NilHash
        /\ cred.user.Password.hash = NilHash =>
            /\ cred.last.resp # failedValidationResponse
            /\ cred.last.resp.status = 500
        /\ (~cred.last.panicked /\ cred.last.v # {}) =>
                cred.last.resp = failedValidationResponse

C20_Witness ==
    /\ cred.last.op = "ValidateUser"
    /\ cred.user.Password.hash = NilHash
    /\ cred.user.Name = <<>>
    /\ cred.user.Email = "alice"
    /\ cred.last.v # {}
    /\ cred.last.panicked
    /\ cred.last.resp.status = 500

----------------------------------------------------------------------------
(* Panics and internal errors below recoverPanic (checked under PanicSpec). *)

PanickedAndAnswered(c) == srv.conns[c].pc = "done" /\ srv.conns[c].panicked

(* C21: a panic below recoverPanic is recovered there and answered with a
   500 that carries the header Connection: close; the process keeps running
   and later requests are still served. *)
C21_PanicAnswered500ConnectionClose ==
    /\ srv.alive
    /\ \A c \in Conns :
        PanickedAndAnswered(c) =>
            /\ srv.conns[c].resp.status = 500
            /\ HeaderGet(srv.conns[c].resp.headers, KeyConnection) = "close"
            /\ ENABLED Accept(c, RemoteAddrs)

(* What holds of C21 in the code: the panic is answered with a 500, the
   process keeps running and the connection takes the next request; the
   header of the response is named "Connection:", which is no Connection
   header. *)
C21_PanicAnswered500ProcessAlive ==
    /\ srv.alive
    /\ \A c \in Conns :
        PanickedAndAnswered(c) =>
            /\ srv.conns[c].resp.status = 500
            /\ HeaderGet(srv.conns[c].resp.headers, KeyConnection) = ""
            /\ HeaderGet(srv.conns[c].resp.headers, KeyConnectionAsWritten) = "close"
            /\ ENABLED Accept(c, RemoteAddrs)

C21_WitnessPanicAnswered == \E c \in Conns : PanickedAndAnswered(c)

(* C22: contextGetUser on a request whose context holds no user panics, and
   the client is answered with a 500, never with a 401 or a 403. *)
C22_MissingUserPanicsTo500 ==
    \A c \in Conns :
        srv.conns[c].ctxUser = "missing" =>
            /\ srv.conns[c].panicked
            /\ srv.conns[c].err = PanicMissingUser
            /\ srv.conns[c].pc \in {"panicking", "done"}
            /\ srv.conns[c].pc = "panicking" => srv.conns[c].resp = NoResponse
            /\ srv.conns[c].pc = "done" =>
                /\ srv.conns[c].resp.status = 500
                /\ srv.conns[c].resp.status \notin {401, 403}

C22_Witness ==
    \E c \in Conns :
        /\ srv.conns[c].ctxUser = "missing"
        /\ srv.conns[c].pc = "done"
        /\ srv.conns[c].resp.status = 500

(* The anonymous user in the context is answered with a 401: the 500 of C22
   is not the answer to every request that lacks a signed-in user. *)
C22_WitnessAnonymousIs401 ==
    \E c \in Conns :
        /\ srv.conns[c].ctxUser = "set"
        /\ srv.conns[c].pc = "done"
        /\ srv.conns[c].resp.status = 401

(* C24: the 500 of serverErrorResponse does not depend on the error: any
   two requests that failed, whatever their errors, were sent the same
   status and the same message, and the message is not the error's text. *)
C24_ServerErrorIndependentOfError ==
    /\ \A f, g \in srv.failed : f.status = g.status /\ f.message = g.message
    /\ \A f \in srv.failed :
        /\ f.status = 500
        /\ f.message # f.err
        /\ f.message \notin InternalErrors \cup PanicValues
    /\ \A c \in Conns :
        srv.conns[c].logged # NoLogEntry =>
            /\ srv.conns[c].pc = "done"
            /\ srv.conns[c].logged.message = srv.conns[c].err
            /\ \E f \in srv.failed :
                /\ f.err = srv.conns[c].err
                /\ f.status = srv.conns[c].resp.status
                /\ f.message = srv.conns[c].resp.message

C24_Witness ==
    \E f, g \in srv.failed :
        /\ f.err \in InternalErrors
        /\ g.err \in InternalErrors
        /\ f.err # g.err

C24_WitnessPanicAndError ==
    \E f, g \in srv.failed : f.err \in PanicValues /\ g.err \in InternalErrors

----------------------------------------------------------------------------
(* The rate limiter (checked under LimitSpec and LimitFairSpec). *)

Holds(c) == srv.mu = c
PastLimiter(c) == srv.conns[c].pc \in {"next", "deny"}

(* C25: the mutex of rateLimit is released on the 429 path and on the
   allowed path and is never held while the downstream handler or the error
   response runs; a request waiting for the mutex gets past the rate limiter
   whatever the handlers downstream do. *)
C25_MutexNotHeldDownstream ==
    /\ [](\A c \in Conns : Holds(c) <=> srv.conns[c].pc = "locked")
    /\ \A c \in Conns : (srv.conns[c].pc = "lock") ~> PastLimiter(c)

(* Two handlers run downstream at the same time and the mutex is free. *)
C25_Witness ==
    \E c, d \in Conns :
        /\ c # d
        /\ srv.conns[c].pc = "next"
        /\ srv.conns[d].pc = "next"
        /\ srv.mu = 0

C25_WitnessDeniedWhileDownstream ==
    \E c, d \in Conns :
        /\ c # d
        /\ srv.conns[c].pc = "next"
        /\ srv.conns[d].pc = "done"
        /\ srv.conns[d].resp = rateLimitExceededResponse

Denied(c) ==
    \/ srv.conns[c].pc = "deny"
    \/ srv.conns[c].pc = "done" /\ srv.conns[c].resp.status = 429

(* C26: with no time elapsing at most Burst = 4 requests of one client IP
   are passed downstream; a further one is answered 429 and reaches neither
   the authenticator nor a handler; the decision depends on the requests of
   the same IP only, and leaves the limiter of every other IP as it was. *)
C26_BurstPerClientIP ==
    /\ [](\A ip \in ClientIPs : srv.passed[ip] <= Burst)
    /\ [](\A c \in Conns :
            Denied(c) => /\ srv.conns[c].ctxUser = "unread"
                         /\ srv.conns[c].pc = "done" =>
                                srv.conns[c].resp = rateLimitExceededResponse)
    /\ [][\A c \in Conns :
            srv.conns[c].pc = "locked" /\ srv'.conns[c].pc # "locked" =>
                LET ip == srv.conns[c].ip
                IN  /\ srv.passed[ip] = Burst => srv'.conns[c].pc = "deny"
                    /\ srv.passed[ip] < Burst => srv'.conns[c].pc = "next"
                    /\ \A other \in DOMAIN srv.clients \ {ip} :
                        srv'.clients[other] = srv.clients[other]]_vars

(* The fifth request of one IP is answered 429 while a request of the other
   IP has been passed downstream. *)
C26_Witness ==
    \E c, d \in Conns : \E ip, other \in ClientIPs :
        /\ ip # other
        /\ srv.conns[c].pc = "done"
        /\ srv.conns[c].resp.status = 429
        /\ srv.passed[ip] = Burst
        /\ srv.clients[ip] = 0
        /\ srv.conns[d].pc = "next"
        /\ srv.passed[other] = 1
        /\ srv.clients[other] = Burst - 1

----------------------------------------------------------------------------
(* Deadlines of the store operations and the retries of the mailer (checked
   under JobSpec). *)

(* C23: every store operation returns: it completes, or it is given up with
   the deadline error when its deadline of StoreTimeout seconds has passed;
   its context is cancelled when it returns, with an error or without. *)
C23_StoreOperationReturns ==
    /\ [](job.store.pc = "running" =>
            /\ job.store.ctx.made
            /\ ~job.store.ctx.cancelled
            /\ job.store.ctx.left \in 0..StoreTimeout)
    /\ [](job.store.pc = "returned" =>
            /\ job.store.ctx.made => job.store.ctx.cancelled
            /\ job.store.err = ErrDeadlineExceeded <=>
                    (job.store.ctx.made /\ job.store.ctx.left = 0))
    /\ (job.store.pc = "running") ~> (job.store.pc = "returned")

C23_Witness ==
    /\ job.store.pc = "returned"
    /\ job.store.err = ErrDeadlineExceeded
    /\ job.store.ctx.cancelled

C23_WitnessCompleted ==
    /\ job.store.pc = "returned"
    /\ job.store.err = "nil"
    /\ job.store.ctx.cancelled
    /\ job.store.ctx.left > 0

Failures(results) == {k \in 1..Len(results) : results[k] # "nil"}

(* C30: Send calls DialAndSend at most MaxTries = 3 times; it returns nil
   right after the first attempt that succeeds, and after three failed
   attempts it returns the error of the last one; it always returns. *)
C30_SendTriesAtMostThreeTimes ==
    /\ [](/\ Len(job.mail.results) <= MaxTries
          /\ \A k \in 1..Len(job.mail.results) :
                job.mail.results[k] = "nil" =>
                    /\ k = Len(job.mail.results)
                    /\ job.mail.pc = "returned"
                    /\ job.mail.ret = "nil"
          /\ job.mail.pc = "returned" /\ job.mail.rendered =>
                \/ /\ job.mail.ret = "nil"
                   /\ Len(job.mail.results) >= 1
                   /\ job.mail.results[Len(job.mail.results)] = "nil"
                \/ /\ Len(job.mail.results) = MaxTries
                   /\ Failures(job.mail.results) = 1..MaxTries
                   /\ job.mail.ret = job.mail.results[MaxTries])
    /\ (job.mail.pc \in {"dial", "sleep"}) ~> (job.mail.pc = "returned")

(* Three failed attempts with different errors: the last one is returned. *)
C30_Witness ==
    /\ job.mail.pc = "returned"
    /\ Len(job.mail.results) = MaxTries
    /\ job.mail.results[1] # job.mail.results[MaxTries]
    /\ job.mail.ret = job.mail.results[MaxTries]
    /\ job.mail.ret # "nil"

C30_WitnessSecondAttemptSucceeds ==
    /\ job.mail.pc = "returned"
    /\ Len(job.mail.results) = 2
    /\ job.mail.results[1] # "nil"
    /\ job.mail.ret = "nil"

----------------------------------------------------------------------------
(* The frame of PATCH and the outcomes of DELETE (checked under Spec). *)

Patched(old, b) ==
    [Title |-> IF b.Title.has THEN b.Title.v ELSE old.Title,
     Year |-> IF b.Year.has THEN b.Year.v ELSE old.Year,
     Runtime |-> IF b.Runtime.has THEN b.Runtime.v ELSE old.Runtime,
     Genres |-> IF b.Genres.has THEN b.Genres.v ELSE old.Genres,
     Version |-> old.Version + 1]

(* C27: a successful PATCH changes only the fields its body holds: a field
   the body lacks keeps the value read from the store, the id stays, the
   version grows by exactly one, and no other row changes. *)
C27_PatchChangesOnlyPresentFields ==
    [][\A s \in Slots :
        (reqs[s].pc = "update" /\ reqs'[s].pc = "done" /\ reqs'[s].err = "nil") =>
            LET id == reqs[s].id
            IN  /\ id \in DOMAIN movies
                /\ DOMAIN movies' = DOMAIN movies
                /\ movies[id].Version = reqs[s].read
                /\ movies'[id] = Patched(movies[id], reqs[s].body)
                /\ \A j \in DOMAIN movies \ {id} : movies'[j] = movies[j]
                /\ reqs'[s].movie.ID = id
                /\ reqs'[s].movie.Version = reqs[s].read + 1
                /\ reqs'[s].resp.status = 200]_vars

(* A PATCH with only a title has been written: the year, the runtime and
   the genres are those of the row read. *)
C27_Witness ==
    \E s \in Slots :
        /\ reqs[s].pc = "done"
        /\ reqs[s].kind = "update"
        /\ reqs[s].called
        /\ reqs[s].err = "nil"
        /\ reqs[s].body = Body(Str("Vertigo"), Absent, Absent, Absent)
        /\ reqs[s].id \in DOMAIN movies
        /\ movies[reqs[s].id] = [SeedRow EXCEPT !.Title = "Vertigo",
                                                !.Version = InitialVersion + 1]

(* A PATCH with an empty body has been written: only the version changed. *)
C27_WitnessEmptyBody ==
    \E s \in Slots :
        /\ reqs[s].pc = "done"
        /\ reqs[s].kind = "update"
        /\ reqs[s].err = "nil"
        /\ reqs[s].called
        /\ reqs[s].body = Body(Absent, Absent, Absent, Absent)
        /\ reqs[s].id \in DOMAIN movies
        /\ movies[reqs[s].id] = [SeedRow EXCEPT !.Version = InitialVersion + 1]

DeletesOf(id) ==
    {s \in Slots : reqs[s].kind = "delete" /\ reqs[s].pc = "done" /\ reqs[s].id = id}
DeletedBy(id) == {s \in DeletesOf(id) : reqs[s].err = "nil"}

(* The ids a client can name: none, below 1, and the ids of the sequence. *)
DeleteIDs == {0 - 1, 0} \cup MovieIDs

(* C28: Delete returns ErrRecordNotFound and leaves the table as it is for
   an id below 1 and for an id that has no row; so of the deletes of one
   movie that existed exactly one succeeds, and every other one is answered
   404. *)
C28_DeleteOnceThenNotFound ==
    /\ [](\A id \in DeleteIDs :
            LET res == MovieDelete(movies, id)
            IN  IF id < 1 \/ id \notin DOMAIN movies
                THEN res.err = "ErrRecordNotFound" /\ res.table = movies
                ELSE /\ res.err = "nil"
                     /\ DOMAIN res.table = DOMAIN movies \ {id}
                     /\ \A j \in DOMAIN res.table : res.table[j] = movies[j])
    /\ [](\A id \in MovieIDs :
            /\ Cardinality(DeletedBy(id)) <= 1
            /\ DeletesOf(id) # {} /\ id < nextID /\ id \notin DOMAIN movies =>
                    Cardinality(DeletedBy(id)) = 1
            /\ \A s \in DeletedBy(id) : reqs[s].resp = DeletedResponse
            /\ \A s \in DeletesOf(id) \ DeletedBy(id) :
                    /\ reqs[s].err = "ErrRecordNotFound"
                    /\ reqs[s].resp = notFoundResponse)
    /\ [][\A s \in Slots :
            (reqs[s].pc = "idle" /\ reqs'[s].kind = "delete") =>
                IF reqs'[s].id \in DOMAIN movies
                THEN reqs'[s].err = "nil" /\ reqs'[s].id \notin DOMAIN movies'
                ELSE reqs'[s].err = "ErrRecordNotFound" /\ movies' = movies]_vars

(* Two deletes of the movie of the seed row: one succeeded, one got 404. *)
C28_Witness ==
    \E s, t \in Slots :
        /\ s # t
        /\ s \in DeletedBy(1)
        /\ t \in DeletesOf(1) \ DeletedBy(1)
        /\ reqs[t].resp.status = 404

----------------------------------------------------------------------------
(* The permission of the movie routes (checked under GateSpec). *)

MovieWriteRoutes == {"createMovie", "updateMovie", "deleteMovie"}
MovieReadRoutes == {"listMovies", "showMovie"}

MayWrite(r) ==
    /\ r.state = "Authenticated"
    /\ ~IsAnonymous(r.user)
    /\ r.user.Activated
    /\ users[r.user.ID].Activated
    /\ HoldsPermission(r.user.ID, "movies:write")

(* C29: the routes that create, update or delete a movie ask movies:write
   and the routes that read movies ask movies:read, so the movies table and
   the versions in it change only in the handler of a request whose user is
   activated and holds movies:write: requests of anonymous users, of users
   not activated and of users holding movies:read only leave it as it is. *)
C29_WritesNeedMoviesWrite ==
    /\ [](/\ \A route \in MovieWriteRoutes : RequiredPermission(route) = "movies:write"
          /\ \A route \in MovieReadRoutes : RequiredPermission(route) = "movies:read")
    /\ [](areq.handled /\ areq.route \in MovieWriteRoutes => MayWrite(areq))
    /\ [][(movies' # movies \/ nextID' # nextID \/ updates' # updates) =>
            /\ areq.pc = "handler"
            /\ areq.route \in MovieWriteRoutes
            /\ MayWrite(areq)]_vars

(* A user holding movies:read only was refused the DELETE and the table is
   the initial one. *)
C29_Witness ==
    /\ areq.pc = "done"
    /\ areq.route = "deleteMovie"
    /\ areq.state = "Authenticated"
    /\ areq.user.ID = 2
    /\ areq.resp.status = 403
    /\ ~areq.handled
    /\ movies = [i \in {1} |-> SeedRow]
    /\ nextID = 2

(* The user holding movies:write has deleted the movie. *)
C29_WitnessWriterDeletes ==
    /\ areq.pc = "done"
    /\ areq.route = "deleteMovie"
    /\ areq.user.ID = 1
    /\ areq.handled
    /\ areq.resp = DeletedResponse
    /\ 1 \notin DOMAIN movies

====
